---- MODULE Spec2Model ----
(***************************************************************************)
(* Card-scan: the session hand-off registry of src/server.js (the          *)
(* scanSessions map, its HTTP handlers and the sweep timer) together with  *)
(* the pure card-number functions the upload handler calls.                *)
(*                                                                         *)
(* Text is a sequence of one-character strings; the empty string is <<>>.  *)
(* Times are milliseconds (Date.now()); an ISO timestamp is kept as the    *)
(* millisecond value it renders.                                           *)
(***************************************************************************)
EXTENDS Integers, Sequences, FiniteSets, Bags, TLC

\* ------------------------------------------------------------------ bounds
\* Number of sessions ever created (uuidv4 values handed out).
MaxSessions == 2
\* Number of upload requests ever received.
MaxUploads == 2
\* Number of clock instants after 0 the model observes.
MaxTicks == 2
\* Length of the longest text of TextAlphabet given to the normalizer.
MaxNoiseLen == 2
\* characters printed after the separator of a date
MaxYearLen == 5
\* Number of scanOnce calls of the mobile scanner that pass their guards.
MaxScanCalls == 3
\* Number of sessions the desktop page is given, and of poll requests it sends.
MaxPageSessions == 2
MaxPolls == 3

\* ------------------------------------------------------- program constants
SESSION_TTL_MS == 5 * 60 * 1000
MAX_CARD_DIGITS == 16
MIN_CARD_DIGITS == 13
\* $.ajax({ timeout: 15000 }) in uploadBlob
UPLOAD_TIMEOUT_MS == 15000
\* req.body.sessionId / req.query.sessionId left out of the request
MissingSessionId == 0

\* The clock is observed at instants half a TTL apart.
ClockStepMs == SESSION_TTL_MS \div 2
MaxNow == MaxTicks * ClockStepMs

\* JavaScript null
null == [null |-> TRUE]
\* deliveredAt: null, as a timestamp
NoTime == 0 - 1

\* -------------------------------------------------------------- characters
Digits == {"0", "1", "2", "3", "4", "5", "6", "7", "8", "9"}

IsDigit(c) == c \in Digits

\* Number(ch) for a decimal digit character
DigitValue(c) ==
  CASE c = "0" -> 0 [] c = "1" -> 1 [] c = "2" -> 2 [] c = "3" -> 3
    [] c = "4" -> 4 [] c = "5" -> 5 [] c = "6" -> 6 [] c = "7" -> 7
    [] c = "8" -> 8 [] c = "9" -> 9

LowerCase == <<"a", "b", "c", "d", "e", "f", "g", "h", "i", "j", "k", "l", "m",
               "n", "o", "p", "q", "r", "s", "t", "u", "v", "w", "x", "y", "z">>
UpperCase == <<"A", "B", "C", "D", "E", "F", "G", "H", "I", "J", "K", "L", "M",
               "N", "O", "P", "Q", "R", "S", "T", "U", "V", "W", "X", "Y", "Z">>

\* String.prototype.toUpperCase on one ASCII character
ToUpperChar(c) ==
  IF \E i \in 1..Len(LowerCase) : LowerCase[i] = c
  THEN UpperCase[CHOOSE i \in 1..Len(LowerCase) : LowerCase[i] = c]
  ELSE c

toUpperCase(text) == [i \in 1..Len(text) |-> ToUpperChar(text[i])]

\* text.replace(/[set]/g, to)
ReplaceAll(text, set, to) ==
  [i \in 1..Len(text) |-> IF text[i] \in set THEN to ELSE text[i]]

\* text.replace(/\D/g, '')
StripNonDigits(text) == SelectSeq(text, IsDigit)

\* ------------------------------------------------------ card-number engine
\* Variant of normalizeDigitLikeText: the text is upper-cased after the
\* replacements instead of before them.
normalizeDigitLikeTextUpperLast(text) ==
  toUpperCase(
    ReplaceAll(
      ReplaceAll(
        ReplaceAll(
          ReplaceAll(
            ReplaceAll(
              ReplaceAll(text, {"O", "Q", "D"}, "0"),
              {"I", "L", "|"}, "1"),
            {"S"}, "5"),
          {"B"}, "8"),
        {"Z"}, "2"),
      {"G"}, "6"))

normalizeDigitLikeText(text) ==
  ReplaceAll(
    ReplaceAll(
      ReplaceAll(
        ReplaceAll(
          ReplaceAll(
            ReplaceAll(toUpperCase(text), {"O", "Q", "D"}, "0"),
            {"I", "L", "|"}, "1"),
          {"S"}, "5"),
        {"B"}, "8"),
      {"Z"}, "2"),
    {"G"}, "6")

RECURSIVE LuhnSum(_, _, _)
\* the loop of luhnCheck from position index down to 1
LuhnSum(cardNumber, index, shouldDouble) ==
  IF index < 1 THEN 0
  ELSE LET digit == DigitValue(cardNumber[index])
           twice == IF 2 * digit > 9 THEN 2 * digit - 9 ELSE 2 * digit
       IN (IF shouldDouble THEN twice ELSE digit)
            + LuhnSum(cardNumber, index - 1, ~shouldDouble)

\* Variant of luhnCheck: the doubling starts at the rightmost digit.
luhnCheckDoubleFirst(cardNumber) == LuhnSum(cardNumber, Len(cardNumber), TRUE) % 10 = 0

luhnCheck(cardNumber) == LuhnSum(cardNumber, Len(cardNumber), FALSE) % 10 = 0

\* bin begins with the characters of prefix
StartsWith(bin, prefix) ==
  /\ Len(bin) >= Len(prefix)
  /\ \A i \in 1..Len(prefix) : bin[i] = prefix[i]

\* bin[i] exists and lies in the character class
CharIn(bin, i, class) == Len(bin) >= i /\ bin[i] \in class

\* the tests of detectCardType on bin, each by itself
VisaRule(bin) == CharIn(bin, 1, {"4"})
MastercardRule(bin) ==
  \/ CharIn(bin, 1, {"5"}) /\ CharIn(bin, 2, {"1", "2", "3", "4", "5"})
  \/ /\ CharIn(bin, 1, {"2"})
     /\ \/ CharIn(bin, 2, {"2"})
           /\ CharIn(bin, 3, {"2", "3", "4", "5", "6", "7", "8", "9"})
        \/ CharIn(bin, 2, {"3", "4", "5", "6"}) /\ CharIn(bin, 3, Digits)
        \/ CharIn(bin, 2, {"7"}) /\ CharIn(bin, 3, {"0", "1"})
        \/ StartsWith(bin, <<"2", "7", "2", "0">>)
RupayRule(bin) ==
  \/ StartsWith(bin, <<"6", "0">>)
  \/ StartsWith(bin, <<"6", "5">>)
  \/ StartsWith(bin, <<"8", "1">>)
  \/ StartsWith(bin, <<"8", "2">>)
  \/ StartsWith(bin, <<"5", "0", "8">>)
AmexRule(bin) == CharIn(bin, 1, {"3"}) /\ CharIn(bin, 2, {"4", "7"})
DiscoverRule(bin) ==
  \/ StartsWith(bin, <<"6", "0", "1", "1">>)
  \/ StartsWith(bin, <<"6", "5">>)

detectCardType(cardNumber) ==
  LET bin == StripNonDigits(cardNumber) IN
  IF VisaRule(bin) THEN "VISA"
  ELSE IF MastercardRule(bin) THEN "MASTERCARD"
  ELSE IF RupayRule(bin) THEN "RUPAY"
  ELSE IF AmexRule(bin) THEN "AMEX"
  ELSE IF DiscoverRule(bin) THEN "DISCOVER"
  ELSE "UNKNOWN"

RECURSIVE GroupEnd(_, _, _)
\* One attempt of /(?:\d[ -]?){13,16}/ with count repetitions matched and the
\* next character at position p: the position after the match, or 0 when
\* fewer than 13 repetitions match.  Each repetition is greedy and nothing
\* shorter can succeed where the greedy choice fails.
GroupEnd(text, p, count) ==
  IF count < 16 /\ p <= Len(text) /\ IsDigit(text[p])
  THEN GroupEnd(text,
                IF p + 1 <= Len(text) /\ text[p + 1] \in {" ", "-"}
                THEN p + 2 ELSE p + 1,
                count + 1)
  ELSE IF count >= 13 THEN p ELSE 0

RECURSIVE MatchGroups(_, _)
\* compactText.match(/(?:\d[ -]?){13,16}/g) || [] searched from position p
MatchGroups(text, p) ==
  IF p > Len(text) THEN <<>>
  ELSE LET end == GroupEnd(text, p, 0) IN
       IF end = 0 THEN MatchGroups(text, p + 1)
       ELSE <<SubSeq(text, p, end - 1)>> \o MatchGroups(text, end)

RECURSIVE FirstValidGroup(_, _)
\* the for-of loop over candidateGroups from index i; <<>> when none validates
FirstValidGroup(groups, i) ==
  IF i > Len(groups) THEN <<>>
  ELSE LET digits == StripNonDigits(groups[i]) IN
       IF /\ Len(digits) >= MIN_CARD_DIGITS
          /\ Len(digits) <= MAX_CARD_DIGITS
          /\ luhnCheck(digits)
       THEN digits
       ELSE FirstValidGroup(groups, i + 1)

\* Variant of SlidingWindow: the first window of the search is returned
\* without the checksum test.
SlidingWindowAnyChecksum(allDigits, start, len) ==
  IF start > Len(allDigits) - MIN_CARD_DIGITS THEN <<>>
  ELSE SubSeq(allDigits, start + 1, start + len)

RECURSIVE SlidingWindowShortestFirst(_, _, _)
\* Variant of SlidingWindow: at each start the lengths are tried from 13 up;
\* len counts down the lengths still to try.
SlidingWindowShortestFirst(allDigits, start, len) ==
  IF start > Len(allDigits) - MIN_CARD_DIGITS THEN <<>>
  ELSE IF len < MIN_CARD_DIGITS
       THEN SlidingWindowShortestFirst(allDigits, start + 1,
              IF MAX_CARD_DIGITS < Len(allDigits) - (start + 1)
              THEN MAX_CARD_DIGITS ELSE Len(allDigits) - (start + 1))
  ELSE IF /\ start + (2 * MIN_CARD_DIGITS + 3 - len) <= Len(allDigits)
          /\ 2 * MIN_CARD_DIGITS + 3 - len <= MAX_CARD_DIGITS
          /\ luhnCheck(SubSeq(allDigits, start + 1,
                              start + (2 * MIN_CARD_DIGITS + 3 - len)))
       THEN SubSeq(allDigits, start + 1, start + (2 * MIN_CARD_DIGITS + 3 - len))
  ELSE SlidingWindowShortestFirst(allDigits, start, len - 1)

RECURSIVE SlidingWindow(_, _, _)
\* the nested loops over start (0-based) and len of the fallback search
SlidingWindow(allDigits, start, len) ==
  IF start > Len(allDigits) - MIN_CARD_DIGITS THEN <<>>
  ELSE IF len < MIN_CARD_DIGITS
       THEN LET next == start + 1
                nmax == IF MAX_CARD_DIGITS < Len(allDigits) - next
                        THEN MAX_CARD_DIGITS ELSE Len(allDigits) - next
            IN SlidingWindow(allDigits, next, nmax)
  ELSE LET candidate == SubSeq(allDigits, start + 1, start + len) IN
       IF luhnCheck(candidate) THEN candidate
       ELSE SlidingWindow(allDigits, start, len - 1)

extractCardNumber(rawText) ==
  LET compactText == normalizeDigitLikeText(rawText)
      candidateGroups == MatchGroups(compactText, 1)
      grouped == FirstValidGroup(candidateGroups, 1)
      allDigits == StripNonDigits(compactText)
      maxLength == IF MAX_CARD_DIGITS < Len(allDigits)
                   THEN MAX_CARD_DIGITS ELSE Len(allDigits)
  IN IF grouped # <<>> THEN grouped
     ELSE SlidingWindow(allDigits, 0, maxLength)

\* Variant of maskCardNumber: the first four digits are shown as well.
maskCardNumberFirstFour(cardNumber) ==
  IF cardNumber = <<>> \/ Len(cardNumber) < 4 THEN <<>>
  ELSE SubSeq(cardNumber, 1, 4)
       \o <<" ", "*", "*", "*", "*", " ", "*", "*", "*", "*", " ">>
       \o SubSeq(cardNumber, Len(cardNumber) - 3, Len(cardNumber))

\* The mask glyph U+2022 is written "*".
maskCardNumber(cardNumber) ==
  IF cardNumber = <<>> \/ Len(cardNumber) < 4 THEN <<>>
  ELSE <<"*", "*", "*", "*", " ", "*", "*", "*", "*", " ",
         "*", "*", "*", "*", " ">>
       \o SubSeq(cardNumber, Len(cardNumber) - 3, Len(cardNumber))

\* ------------------------------------------------------------ expiry engine
\* Whitespace (\s, trim) and word characters (\w) of the texts modelled.
WhiteSpace == {" ", "\t", "\r", "\n"}
WordChars == Digits \cup {UpperCase[i] : i \in 1..Len(UpperCase)}
               \cup {LowerCase[i] : i \in 1..Len(LowerCase)} \cup {"_"}

\* Elements of a regular expression: a character class repeated min..max
\* times (greedy), and the word boundary \b.
Class(set, min, max) == [boundary |-> FALSE, set |-> set, min |-> min, max |-> max]
One(set) == Class(set, 1, 1)
WordBoundary == [boundary |-> TRUE, set |-> {}, min |-> 0, max |-> 0]
\* a literal word
Lit(chars) == [i \in 1..Len(chars) |-> One({chars[i]})]
\* \s* (64 is more than any line modelled holds) and \/?
Spaces == <<Class(WhiteSpace, 0, 64)>>
OptSlash == <<Class({"/"}, 0, 1)>>

RECURSIVE RunLength(_, _, _, _)
\* the number of characters of the class from position p on, at most max
RunLength(text, p, set, max) ==
  IF max = 0 \/ p > Len(text) \/ text[p] \notin set THEN 0
  ELSE 1 + RunLength(text, p + 1, set, max - 1)

\* position p (1-based) lies between a word character and a non-word one
AtWordBoundary(text, p) ==
  (p > 1 /\ p - 1 <= Len(text) /\ text[p - 1] \in WordChars)
    # (p <= Len(text) /\ text[p] \in WordChars)

RECURSIVE MatchFrom(_, _, _, _)
\* The elements k.. of pattern matched at position p: the position after the
\* match, or 0 when there is none.  Every repetition takes all it can: in the
\* patterns below no repeated class can begin what follows it, so giving
\* characters back never turns a failure into a match.
MatchFrom(text, p, pattern, k) ==
  IF k > Len(pattern) THEN p
  ELSE IF pattern[k].boundary
       THEN IF AtWordBoundary(text, p) THEN MatchFrom(text, p, pattern, k + 1) ELSE 0
  ELSE LET n == RunLength(text, p, pattern[k].set, pattern[k].max) IN
       IF n < pattern[k].min THEN 0
       ELSE MatchFrom(text, p + n, pattern, k + 1)

RECURSIVE MatchAlternatives(_, _, _, _)
\* a | b | ... at position p: the end of the first alternative, from the
\* i-th on, that matches there, or 0
MatchAlternatives(text, p, alternatives, i) ==
  IF i > Len(alternatives) THEN 0
  ELSE LET end == MatchFrom(text, p, alternatives[i], 1) IN
       IF end # 0 THEN end ELSE MatchAlternatives(text, p, alternatives, i + 1)

\* regex.test(text)
Test(text, alternatives) ==
  \E p \in 1..Len(text) : MatchAlternatives(text, p, alternatives, 1) # 0

RECURSIVE getPositions(_, _, _)
\* match.index (0-based) of the successive matches of the regex with the g
\* flag, searched from position p; no keyword matches the empty string
getPositions(line, alternatives, p) ==
  IF p > Len(line) THEN <<>>
  ELSE LET end == MatchAlternatives(line, p, alternatives, 1) IN
       IF end = 0 THEN getPositions(line, alternatives, p + 1)
       ELSE <<p - 1>> \o getPositions(line, alternatives, end)

thruKeywordRegex ==
  << Lit(<<"V", "A", "L", "I", "D">>) \o Spaces \o Lit(<<"T", "H", "R", "U">>),
     Lit(<<"V", "A", "L", "I", "D", "T", "H", "R", "U">>),
     Lit(<<"T", "H", "R", "U">>),
     Lit(<<"T", "H", "R", "O", "U", "G", "H">>),
     <<WordBoundary>> \o Lit(<<"E", "X", "P">>) \o <<WordBoundary>>,
     Lit(<<"E", "X", "P", "I", "R", "Y">>),
     Lit(<<"E", "X", "P", "I", "R", "E">>) \o <<Class({"S"}, 0, 1)>>,
     Lit(<<"M", "M">>) \o Spaces \o OptSlash \o Spaces \o Lit(<<"Y", "Y">>),
     Lit(<<"M", "O", "N", "T", "H">>) \o Spaces \o OptSlash \o Spaces
       \o Lit(<<"Y", "E", "A", "R">>) >>

fromKeywordRegex ==
  << Lit(<<"V", "A", "L", "I", "D">>) \o Spaces \o Lit(<<"F", "R", "O", "M">>),
     Lit(<<"V", "A", "L", "I", "D", "F", "R", "O", "M">>),
     <<WordBoundary>> \o Lit(<<"F", "R", "O", "M">>) \o <<WordBoundary>>,
     Lit(<<"I", "S", "S", "U", "E">>) \o <<Class({"D"}, 0, 1)>>,
     Lit(<<"S", "I", "N", "C", "E">>),
     Lit(<<"S", "T", "A", "R", "T">>) >>

RECURSIVE SplitLines(_)
\* text.split(/\r?\n/)
SplitLines(text) ==
  IF \A i \in 1..Len(text) : text[i] # "\n" THEN <<text>>
  ELSE LET i == CHOOSE j \in 1..Len(text) :
                  text[j] = "\n" /\ \A k \in 1..(j - 1) : text[k] # "\n"
           end == IF i > 1 /\ text[i - 1] = "\r" THEN i - 2 ELSE i - 1
       IN <<SubSeq(text, 1, end)>> \o SplitLines(SubSeq(text, i + 1, Len(text)))

\* line.trim()
trim(line) ==
  LET inked == {i \in 1..Len(line) : line[i] \notin WhiteSpace} IN
  IF inked = {} THEN <<>>
  ELSE SubSeq(line, CHOOSE i \in inked : \A j \in inked : i <= j,
                    CHOOSE i \in inked : \A j \in inked : i >= j)

NonEmpty(line) == line # <<>>

\* rawText.toUpperCase().split(/\r?\n/).map(trim).filter(Boolean)
LinesOf(rawText) ==
  LET parts == SplitLines(toUpperCase(rawText)) IN
  SelectSeq([i \in 1..Len(parts) |-> trim(parts[i])], NonEmpty)

\* Body(value), with value computed once
Once(value, Body(_)) == CHOOSE result \in {Body(v) : v \in {value}} : TRUE

\* the class [0-9OQDIL|SBZG] of the year of dateRegex
YearChars == Digits \cup {"O", "Q", "D", "I", "L", "|", "S", "B", "Z", "G"}

NoMatch == [end |-> 0, month |-> <<>>, year |-> <<>>]

\* dateRegex = /([0O][1-9]|1[0-2])\s*[-\/]\s*([0-9OQDIL|SBZG]{2,4})/ at
\* position p: the position after the match and its two groups, or NoMatch
DateAt(line, p) ==
  Once(MatchAlternatives(line, p,
         << <<One({"0", "O"}), One(Digits \ {"0"})>>,
            <<One({"1"}), One({"0", "1", "2"})>> >>, 1),
    LAMBDA monthEnd :
      IF monthEnd = 0 THEN NoMatch
      ELSE
  Once(MatchFrom(line, monthEnd, Spaces \o <<One({"-", "/"})>> \o Spaces, 1),
    LAMBDA yearStart :
      IF yearStart = 0 THEN NoMatch
      ELSE
  Once(RunLength(line, yearStart, YearChars, 4),
    LAMBDA n :
      IF n < 2 THEN NoMatch
      ELSE [end |-> yearStart + n,
            month |-> SubSeq(line, p, monthEnd - 1),
            year |-> SubSeq(line, yearStart, yearStart + n - 1)])))

\* normalizeDateDigits of extractExpiry
normalizeDateDigits(value) ==
  ReplaceAll(
    ReplaceAll(
      ReplaceAll(
        ReplaceAll(
          ReplaceAll(
            ReplaceAll(value, {"O", "Q", "D"}, "0"),
            {"I", "L", "|"}, "1"),
          {"S"}, "5"),
        {"B"}, "8"),
      {"Z"}, "2"),
    {"G"}, "6")

toExpiry(monthRaw, yearRaw) ==
  Once(normalizeDateDigits(monthRaw), LAMBDA month :
  Once(normalizeDateDigits(yearRaw), LAMBDA yearClean :
    IF ~(/\ Len(month) = 2
         /\ \/ month[1] = "0" /\ month[2] \in Digits \ {"0"}
            \/ month[1] = "1" /\ month[2] \in {"0", "1", "2"})
    THEN <<>>
    ELSE IF ~(Len(yearClean) \in 2..4 /\ \A i \in 1..Len(yearClean) : IsDigit(yearClean[i]))
    THEN <<>>
    ELSE month \o <<"/">>
           \o (IF Len(yearClean) = 4 THEN SubSeq(yearClean, 3, 4) ELSE yearClean)))

RECURSIVE collectDateMatches(_, _)
\* the matches of dateRegex in line from position p on that toExpiry accepts,
\* each with its expiry and its index (0-based)
collectDateMatches(line, p) ==
  IF p > Len(line) THEN <<>>
  ELSE Once(DateAt(line, p), LAMBDA match :
         IF match = NoMatch THEN collectDateMatches(line, p + 1)
         ELSE Once(toExpiry(match.month, match.year), LAMBDA expiry :
                (IF expiry # <<>> THEN <<[expiry |-> expiry, index |-> p - 1]>> ELSE <<>>)
                  \o collectDateMatches(line, match.end)))

RECURSIVE NumberOf(_)
\* Number(text) for a digit string
NumberOf(digits) ==
  IF digits = <<>> THEN 0
  ELSE 10 * NumberOf(SubSeq(digits, 1, Len(digits) - 1)) + DigitValue(digits[Len(digits)])

\* a.expiry.split('/').map(Number)
MonthOf(expiry) == NumberOf(SubSeq(expiry, 1, 2))
YearOf(expiry) == NumberOf(SubSeq(expiry, 4, Len(expiry)))

\* Variant of compareExpiry: the month is compared before the year.
compareExpiryMonthFirst(a, b) ==
  IF MonthOf(a.expiry) # MonthOf(b.expiry)
  THEN MonthOf(b.expiry) - MonthOf(a.expiry)
  ELSE YearOf(b.expiry) - YearOf(a.expiry)

\* compareExpiry(a, b): negative when a sorts before b
compareExpiry(a, b) ==
  IF YearOf(a.expiry) # YearOf(b.expiry)
  THEN YearOf(b.expiry) - YearOf(a.expiry)
  ELSE MonthOf(b.expiry) - MonthOf(a.expiry)

\* [...candidates].sort(compareExpiry)[0]: the sort is stable, so its first
\* element is the earliest candidate that no other candidate sorts before
FirstSorted(candidates) ==
  LET first(i) == \A j \in 1..Len(candidates) :
                    compareExpiry(candidates[j], candidates[i]) >= 0
  IN candidates[CHOOSE i \in 1..Len(candidates) :
                  first(i) /\ \A j \in 1..(i - 1) : ~first(j)]

Abs(n) == IF n < 0 THEN 0 - n ELSE n
MinOf(numbers) == CHOOSE n \in numbers : \A m \in numbers : n <= m
Positive(n) == IF n > 0 THEN n ELSE 0
Elements(positions) == {positions[i] : i \in 1..Len(positions)}

\* The score the forEach loop gives the date at position in line, between
\* prevLine and nextLine ('' when there is none).
scoreOf(position, line, prevLine, nextLine) ==
  Once(Elements(getPositions(line, thruKeywordRegex, 1)), LAMBDA thruPositions :
  Once(Elements(getPositions(line, fromKeywordRegex, 1)), LAMBDA fromPositions :
     (IF thruPositions # {}
      THEN Positive(80 - MinOf({Abs(position - q) : q \in thruPositions})) ELSE 0)
     - (IF fromPositions # {}
        THEN Positive(90 - MinOf({Abs(position - q) : q \in fromPositions})) ELSE 0)
     + (IF thruPositions # {} /\ position >= MinOf(thruPositions) THEN 16 ELSE 0)
     - (IF fromPositions # {} /\ position >= MinOf(fromPositions) THEN 24 ELSE 0)
     + (IF prevLine # <<>> /\ Test(prevLine, thruKeywordRegex) THEN 22 ELSE 0)
     - (IF prevLine # <<>> /\ Test(prevLine, fromKeywordRegex) THEN 18 ELSE 0)
     + (IF nextLine # <<>> /\ Test(nextLine, thruKeywordRegex) THEN 8 ELSE 0)
     - (IF nextLine # <<>> /\ Test(nextLine, fromKeywordRegex) THEN 8 ELSE 0)))

RECURSIVE candidatesOf(_, _)
\* the candidates the forEach loop pushes for the lines from lineIndex
\* (1-based here, 0-based in the record) on
candidatesOf(lines, lineIndex) ==
  IF lineIndex > Len(lines) THEN <<>>
  ELSE LET line == lines[lineIndex]
           prevLine == IF lineIndex > 1 THEN lines[lineIndex - 1] ELSE <<>>
           nextLine == IF lineIndex + 1 <= Len(lines) THEN lines[lineIndex + 1] ELSE <<>>
       IN Once(collectDateMatches(line, 1), LAMBDA dates :
            [i \in 1..Len(dates) |->
               [expiry |-> dates[i].expiry,
                score |-> scoreOf(dates[i].index, line, prevLine, nextLine),
                lineIndex |-> lineIndex - 1,
                position |-> dates[i].index]])
          \o candidatesOf(lines, lineIndex + 1)

\* The line at index pairs a from keyword with a thru keyword and has two or
\* more dates on it, or none on it and two or more on the next line.
\* Variant of PairedOnLine: a line of two dates does not count.
PairedOnLineThree(lines, index) ==
  /\ Test(lines[index], fromKeywordRegex)
  /\ Test(lines[index], thruKeywordRegex)
  /\ Len(collectDateMatches(lines[index], 1)) >= 3

PairedOnLine(lines, index) ==
  /\ Test(lines[index], fromKeywordRegex)
  /\ Test(lines[index], thruKeywordRegex)
  /\ Len(collectDateMatches(lines[index], 1)) >= 2

PairedOnNextLine(lines, index) ==
  /\ Test(lines[index], fromKeywordRegex)
  /\ Test(lines[index], thruKeywordRegex)
  /\ collectDateMatches(lines[index], 1) = <<>>
  /\ index + 1 <= Len(lines)
  /\ Len(collectDateMatches(lines[index + 1], 1)) >= 2

RECURSIVE pairedExpiry(_, _)
\* the first for loop of extractExpiry from the line at index on: the expiry
\* it returns, or <<>> when it runs to its end
pairedExpiry(lines, index) ==
  IF index > Len(lines) THEN <<>>
  ELSE IF PairedOnLine(lines, index)
  THEN LET sameLineDates == collectDateMatches(lines[index], 1)
       IN sameLineDates[Len(sameLineDates)].expiry
  ELSE IF PairedOnNextLine(lines, index)
  THEN LET nextLineDates == collectDateMatches(lines[index + 1], 1)
       IN nextLineDates[Len(nextLineDates)].expiry
  ELSE pairedExpiry(lines, index + 1)

extractExpiry(rawText) ==
  Once(LinesOf(rawText), LAMBDA lines :
  Once(pairedExpiry(lines, 1), LAMBDA paired :
    IF paired # <<>> THEN paired
    ELSE
  Once(candidatesOf(lines, 1), LAMBDA candidates :
    IF candidates = <<>> THEN <<>>
    ELSE IF Len(candidates) > 1
    THEN FirstSorted(candidates).expiry
    \* the sort by score, line and position of an array of one element
    ELSE candidates[1].expiry)))

\* ------------------------------------------------------------- name engine
blockedWords ==
  {<<"V", "A", "L", "I", "D">>,
   <<"T", "H", "R", "U">>,
   <<"T", "H", "R", "O", "U", "G", "H">>,
   <<"F", "R", "O", "M">>,
   <<"M", "O", "N", "T", "H">>,
   <<"Y", "E", "A", "R">>,
   <<"E", "X", "P">>,
   <<"E", "X", "P", "I", "R", "E", "S">>,
   <<"C", "A", "R", "D">>,
   <<"D", "E", "B", "I", "T">>,
   <<"C", "R", "E", "D", "I", "T">>,
   <<"B", "A", "N", "K">>,
   <<"V", "I", "S", "A">>,
   <<"M", "A", "S", "T", "E", "R", "C", "A", "R", "D">>,
   <<"R", "U", "P", "A", "Y">>,
   <<"A", "M", "E", "X">>,
   <<"D", "I", "S", "C", "O", "V", "E", "R">>,
   <<"P", "L", "A", "T", "I", "N", "U", "M">>,
   <<"S", "I", "G", "N", "A", "T", "U", "R", "E">>,
   <<"C", "L", "A", "S", "S", "I", "C">>,
   <<"G", "O", "L", "D">>,
   <<"W", "O", "R", "L", "D">>,
   <<"E", "L", "E", "C", "T", "R", "O", "N">>,
   <<"P", "A", "Y">>,
   <<"M", "E", "M", "B", "E", "R">>,
   <<"S", "I", "N", "C", "E">>,
   <<"C", "O", "R", "P">>,
   <<"L", "I", "M", "I", "T", "E", "D">>,
   <<"L", "T", "D">>,
   <<"P", "R", "I", "V", "A", "T", "E">>,
   <<"B", "U", "S", "I", "N", "E", "S", "S">>,
   <<"A", "Z", "A", "D", "I">>,
   <<"A", "M", "R", "I", "T">>,
   <<"M", "A", "H", "O", "T", "S", "A", "V">>,
   <<"I", "N", "D", "I", "A">>}

removablePrefixes ==
  {<<"M", "R">>,
   <<"M", "R", "S">>,
   <<"M", "S">>,
   <<"M", "I", "S", "S">>,
   <<"D", "R">>,
   <<"S", "H", "R", "I">>,
   <<"S", "M", "T">>}

anchorPattern ==
  << Lit(<<"V", "A", "L", "I", "D">>),
     Lit(<<"T", "H", "R", "U">>),
     Lit(<<"T", "H", "R", "O", "U", "G", "H">>),
     Lit(<<"E", "X", "P">>),
     Lit(<<"M", "O", "N", "T", "H">>),
     Lit(<<"Y", "E", "A", "R">>),
     Lit(<<"M", "M">>) \o OptSlash \o Lit(<<"Y", "Y">>),
     Lit(<<"D", "E", "B", "I", "T">>),
     Lit(<<"C", "R", "E", "D", "I", "T">>),
     Lit(<<"C", "A", "R", "D">>) >>

\* /(0[1-9]|1[0-2])\s*[\/-]\s*(\d{2}|\d{4})/: where four digits match, two do
printedExpiryPattern ==
  << <<One({"0"}), One(Digits \ {"0"})>> \o Spaces \o <<One({"/", "-"})>>
       \o Spaces \o <<Class(Digits, 2, 2)>>,
     <<One({"1"}), One({"0", "1", "2"})>> \o Spaces \o <<One({"/", "-"})>>
       \o Spaces \o <<Class(Digits, 2, 2)>> >>

Letters == {UpperCase[i] : i \in 1..Len(UpperCase)}
Vowels == {"A", "E", "I", "O", "U"}

\* the indices (1-based) of the lines that satisfy Holds
IndicesOf(lines, Holds(_)) == {i \in 1..Len(lines) : Holds(lines[i])}

isAnchorLine(line) == Test(line, anchorPattern) \/ Test(line, printedExpiryPattern)
isCardNumberLine(line) ==
  /\ Len(StripNonDigits(line)) >= MIN_CARD_DIGITS
  /\ Len(StripNonDigits(line)) <= MAX_CARD_DIGITS
isExpiryLine(line) == Test(line, printedExpiryPattern)

RECURSIVE CollapseSpaces(_)
\* .replace(/\s+/g, ' ')
CollapseSpaces(text) ==
  IF text = <<>> THEN <<>>
  ELSE IF Head(text) \notin WhiteSpace THEN <<Head(text)>> \o CollapseSpaces(Tail(text))
  ELSE IF Len(text) >= 2 /\ text[2] \in WhiteSpace THEN CollapseSpaces(Tail(text))
  ELSE <<" ">> \o CollapseSpaces(Tail(text))

\* .replace(/[^A-Z\s]/g, ' ')
BlankOthers(text) ==
  [i \in 1..Len(text) |->
     IF text[i] \in Letters \cup WhiteSpace THEN text[i] ELSE " "]

normalizeNameLine(line) ==
  trim(CollapseSpaces(BlankOthers(
    ReplaceAll(ReplaceAll(ReplaceAll(ReplaceAll(line,
      {"0"}, "O"), {"1"}, "I"), {"5"}, "S"), {"8"}, "B"))))

RECURSIVE SplitWords(_)
\* normalized.split(' ')
SplitWords(text) ==
  IF \A i \in 1..Len(text) : text[i] # " " THEN <<text>>
  ELSE <<SubSeq(text, 1, (CHOOSE j \in 1..Len(text) :
                            text[j] = " " /\ \A k \in 1..(j - 1) : text[k] # " ") - 1)>>
         \o SplitWords(SubSeq(text, (CHOOSE j \in 1..Len(text) :
                            text[j] = " " /\ \A k \in 1..(j - 1) : text[k] # " ") + 1,
                          Len(text)))

\* words after .filter(Boolean) and the removal of a leading honorific
nameWords(normalized) ==
  Once(SelectSeq(SplitWords(normalized), NonEmpty), LAMBDA words :
    IF words # <<>> /\ words[1] \in removablePrefixes THEN Tail(words) ELSE words)

RECURSIVE Join(_)
\* words.join(' ')
Join(words) ==
  IF words = <<>> THEN <<>>
  ELSE IF Len(words) = 1 THEN words[1]
  ELSE words[1] \o <<" ">> \o Join(Tail(words))

\* Variant of isNameCandidate: a single word is accepted as well.
isNameCandidateOneWord(normalized, words) ==
  /\ normalized # <<>> /\ Len(normalized) >= 5 /\ Len(normalized) <= 40
  /\ Len(words) >= 1 /\ Len(words) <= 4
  /\ \A i \in 1..Len(words) : Len(words[i]) >= 2 /\ Len(words[i]) <= 14
  /\ \A i \in 1..Len(words) : words[i] \notin blockedWords
  /\ \A i \in 1..Len(words) : \E k \in 1..Len(words[i]) : words[i][k] \in Vowels

\* the early returns of the second forEach: the line is scored when none fires
isNameCandidate(normalized, words) ==
  /\ normalized # <<>> /\ Len(normalized) >= 5 /\ Len(normalized) <= 40
  /\ Len(words) >= 2 /\ Len(words) <= 4
  /\ \A i \in 1..Len(words) : Len(words[i]) >= 2 /\ Len(words[i]) <= 14
  /\ \A i \in 1..Len(words) : words[i] \notin blockedWords
  /\ \A i \in 1..Len(words) : \E k \in 1..Len(words[i]) : words[i][k] \in Vowels

\* indices.reduce(...): the first of the indices nearest to index
NearestIndex(indices, index) ==
  CHOOSE x \in indices : \A y \in indices :
    \/ Abs(x - index) < Abs(y - index)
    \/ Abs(x - index) = Abs(y - index) /\ x <= y

RECURSIVE LettersIn(_)
\* fullName.replace(/\s/g, '').length, from the words
LettersIn(words) ==
  IF words = <<>> THEN 0 ELSE Len(words[1]) + LettersIn(Tail(words))

\* the score of the name of words on the line at index
nameScore(words, fullName, index, anchorIndices, cardNumberIndices, expiryIndices) ==
  (IF Len(words) \in {2, 3} THEN 5 ELSE 0)
  + (IF Len(words) = 4 THEN 2 ELSE 0)
  + (IF LettersIn(words) >= 3 * Len(words) /\ LettersIn(words) <= 8 * Len(words)
     THEN 3 ELSE 0)
  + (IF fullName # <<>> /\ \A k \in 1..Len(fullName) : fullName[k] \in Letters \cup WhiteSpace
     THEN 2 ELSE 0)
  + (IF anchorIndices = {} THEN 0
     ELSE IF MinOf({Abs(a - index) : a \in anchorIndices}) <= 2 THEN 3
     ELSE IF MinOf({Abs(a - index) : a \in anchorIndices}) <= 4 THEN 1
     ELSE 0)
  + (IF cardNumberIndices = {} THEN 0
     ELSE (IF /\ index > NearestIndex(cardNumberIndices, index)
              /\ index - NearestIndex(cardNumberIndices, index) <= 6 THEN 4 ELSE 0)
          - (IF index < NearestIndex(cardNumberIndices, index) THEN 2 ELSE 0))
  + (IF expiryIndices = {} THEN 0
     ELSE IF /\ index > NearestIndex(expiryIndices, index)
             /\ index - NearestIndex(expiryIndices, index) <= 4 THEN 3 ELSE 0)
  - (IF \E k \in 1..(Len(fullName) - 2) :
          /\ fullName[k] \in Letters
          /\ fullName[k + 1] = fullName[k] /\ fullName[k + 2] = fullName[k]
     THEN 3 ELSE 0)

\* bestCandidate and bestScore before any line is scored
NoBest == [scored |-> FALSE, score |-> 0, candidate |-> <<>>]

\* one pass of the second forEach, for the line at index
scoreLine(lines, index, best, anchorIndices, cardNumberIndices, expiryIndices) ==
  Once(normalizeNameLine(lines[index]), LAMBDA normalized :
  Once(nameWords(normalized), LAMBDA words :
    IF ~isNameCandidate(normalized, words) THEN best
    ELSE
  Once(nameScore(words, Join(words), index,
                 anchorIndices, cardNumberIndices, expiryIndices), LAMBDA score :
    IF ~best.scored \/ score > best.score
    THEN [scored |-> TRUE, score |-> score, candidate |-> Join(words)]
    ELSE best)))

RECURSIVE bestName(_, _, _, _, _, _)
\* the second forEach from the line at index on
bestName(lines, index, best, anchorIndices, cardNumberIndices, expiryIndices) ==
  IF index > Len(lines) THEN best
  ELSE bestName(lines, index + 1,
                scoreLine(lines, index, best,
                          anchorIndices, cardNumberIndices, expiryIndices),
                anchorIndices, cardNumberIndices, expiryIndices)

extractCardholderName(rawText) ==
  Once(LinesOf(rawText), LAMBDA lines :
  Once(bestName(lines, 1, NoBest, IndicesOf(lines, isAnchorLine),
                IndicesOf(lines, isCardNumberLine), IndicesOf(lines, isExpiryLine)),
    LAMBDA best :
      IF best.scored /\ best.score > 0 THEN best.candidate ELSE <<>>))

\* ---------------------------------------------------------- recognizer
\* Texts the recognizer (runVisionOCR) may answer with.
TextVisaGrouped ==
  <<"4", "1", "1", "1", " ", "1", "1", "1", "1", " ",
    "1", "1", "1", "1", " ", "1", "1", "1", "1">>
TextMastercard ==
  <<"5", "5", "0", "0", "0", "0", "0", "0", "0", "0", "0", "0", "0", "0", "0", "4">>
TextNoCard == <<"n", "o", " ", "c", "a", "r", "d">>

OcrTexts == {TextVisaGrouped, TextMastercard, TextNoCard}

\* What awaiting runVisionOCR ends with: a text, or a rejection (throw).
OcrOutcomes ==
  {[threw |-> FALSE, text |-> t] : t \in OcrTexts}
    \cup {[threw |-> TRUE, text |-> <<>>]}

\* extractCardNumber over the recognizer's texts
CardNumberOf == [t \in OcrTexts \cup {<<>>} |-> extractCardNumber(t)]

\* extractExpiry and extractCardholderName are pure functions of the text
\* whose results the upload handler stores without branching on them; the
\* registry model takes their results as given with the text.
ExpiryValues == {<<"0", "9", "/", "2", "6">>}
NameValues == {<<"J", "O", "H", "N", " ", "S", "M", "I", "T", "H">>}

\* ------------------------------------------------------------ the registry
VARIABLES
  now,           \* Date.now()
  nextId,        \* 1 + the number of uuidv4() values handed out
  scanSessions,  \* the scanSessions Map: session id -> session object
  started,       \* the number of upload requests received so far
  awaiting,      \* the POST /api/scan handlers awaiting runVisionOCR (a bag)
  resp,          \* what the latest step sent or did (NoResponse if nothing)
  lastSuccess,   \* history: per stored session, the record of the latest 200 upload to it
  prevSuccess,   \* history: per stored session, the record that lastSuccess replaced
  successCount,  \* history: per stored session, the number of 200 uploads to it
  input,         \* the text a function of the engine is applied to (NoInput in the registry)
  output,        \* the function applied to input and what it returned
  scanner,       \* the mobile scanner page: its variables and its scanOnce calls
  desktop        \* the desktop page: its variables and its requests in flight

vars == <<now, nextId, scanSessions, started, awaiting, resp, lastSuccess, prevSuccess, successCount, input, output, scanner, desktop>>

\* the variables of the engine's functions
textVars == <<input, output>>
\* the variables of the registry
registryVars == <<now, nextId, scanSessions, started, awaiting, resp, lastSuccess, prevSuccess, successCount>>
NoInput == [kind |-> "none", text |-> <<>>]
NoOutput == [fn |-> "none"]

SessionIds == 1..MaxSessions
\* a well-formed id no session was ever created under
UnknownId == MaxSessions + 1
\* ids that uuidv4() has handed out
Allocated == 1..(nextId - 1)
\* session ids a client may send
RequestIds == Allocated \cup {UnknownId, MissingSessionId}
\* values a later Date.now() in the same handler may return
ClockReads == {now} \cup (IF now + ClockStepMs <= MaxNow THEN {now + ClockStepMs} ELSE {})

NoResponse == [kind |-> "none"]

\* A run of the sweep timer sends no response; the step records what it removed.
Swept(before, after) == [kind |-> "sweep", removed |-> DOMAIN before \ DOMAIN after]

Error(message) == [ok |-> FALSE, error |-> message]

\* scanSessions.delete(sessionId) and friends: the map without the keys
Without(sessions, keys) == [id \in DOMAIN sessions \ keys |-> sessions[id]]

\* Variant of With: every other session is started afresh.
WithOthersFresh(sessions, sessionId, session) ==
  [id \in DOMAIN sessions \cup {sessionId} |->
     IF id = sessionId THEN session
     ELSE [createdAt |-> sessions[id].createdAt,
           expiresAt |-> sessions[id].expiresAt,
           status |-> "pending",
           data |-> null]]

\* scanSessions.set(sessionId, session)
With(sessions, sessionId, session) ==
  [id \in DOMAIN sessions \cup {sessionId} |->
     IF id = sessionId THEN session ELSE sessions[id]]

\* Variant of isExpired: the comparison is strict.
isExpiredStrict(session, t) == session.expiresAt < t

\* session.expiresAt <= Date.now()
isExpired(session, t) == session.expiresAt <= t

\* Variant of cleanupExpiredSessions: a session is kept at the instant it expires.
cleanupExpiredSessionsLate(sessions, t) ==
  Without(sessions, {id \in DOMAIN sessions : sessions[id].expiresAt < t})

\* Variant of cleanupExpiredSessions: every session is removed.
cleanupExpiredSessionsAll(sessions, t) == Without(sessions, DOMAIN sessions)

\* Variant of cleanupExpiredSessions: nothing is removed.
cleanupExpiredSessionsNone(sessions, t) == sessions

\* cleanupExpiredSessions() at time t: the map it leaves
cleanupExpiredSessions(sessions, t) ==
  Without(sessions, {id \in DOMAIN sessions : isExpired(sessions[id], t)})

\* The object literal of POST /api/session
newSession(createdAt) ==
  [createdAt |-> createdAt,
   expiresAt |-> createdAt + SESSION_TTL_MS,
   status |-> "pending",
   data |-> null]

\* The object literal assigned to session.data
cardRecord(cardNumber, cardholderName, expiryDate, scannedAt) ==
  [cardNumber |-> cardNumber,
   maskedCardNumber |-> maskCardNumber(cardNumber),
   cardholderName |-> cardholderName,
   expiryDate |-> expiryDate,
   cardType |-> detectCardType(cardNumber),
   scannedAt |-> scannedAt,
   deliveredAt |-> NoTime]

\* Variant of attachResult: the status is written and the record is not.
attachResultStatusOnly(session, record) ==
  [session EXCEPT !.status = "ready"]

\* Variant of attachResult: the record is written field by field and read
\* after the number, before the fields derived from it.
attachResultTorn(session, record) ==
  [session EXCEPT !.status = "ready",
                  !.data = [record EXCEPT !.maskedCardNumber = <<>>,
                                          !.cardType = "UNKNOWN"]]

\* Variant of attachResult: the first record of a session is kept.
attachResultFirstWins(session, record) ==
  IF session.data # null THEN session
  ELSE [session EXCEPT !.status = "ready", !.data = record]

\* session.status = 'ready'; session.data = {...}
attachResult(session, record) ==
  [session EXCEPT !.status = "ready", !.data = record]

\* Variant of isPending: a record already delivered is not served again.
isPendingOneShot(session) ==
  \/ session.status # "ready"
  \/ session.data = null
  \/ session.data.deliveredAt # NoTime

\* session.status !== 'ready' || !session.data
isPending(session) == session.status # "ready" \/ session.data = null

\* Variant of markDelivered: the session is emptied once its record is served.
markDeliveredConsume(session, t) ==
  [session EXCEPT !.status = "pending", !.data = null]

\* if (session.data && !session.data.deliveredAt) session.data.deliveredAt = ...
markDelivered(session, t) ==
  IF session.data # null /\ session.data.deliveredAt = NoTime
  THEN [session EXCEPT !.data.deliveredAt = t]
  ELSE session

\* the data object of the upload's success response
scanResponseData(data) ==
  [maskedCardNumber |-> data.maskedCardNumber,
   cardholderName |-> data.cardholderName,
   expiryDate |-> data.expiryDate,
   cardType |-> data.cardType]

\* A record as an upload wrote it (deliveredAt is written by polls).
AsWritten(data) == [data EXCEPT !.deliveredAt = NoTime]

\* The history f of the sessions that sessions still holds.
Kept(f, sessions, none) ==
  [id \in SessionIds |-> IF id \in DOMAIN sessions THEN f[id] ELSE none]

\* A handler suspended at the await: the session id of its request, when the
\* browser sent it, and whether the browser has given up on it since.
AwaitingAt(sessionId, sentAt) ==
  [sessionId |-> sessionId, sentAt |-> sentAt, timedOut |-> FALSE]

\* The registry of a process that has just started.
EmptyRegistry ==
  /\ now = 0
  /\ nextId = 1
  /\ scanSessions = <<>>
  /\ started = 0
  /\ awaiting = EmptyBag
  /\ resp = NoResponse
  /\ lastSuccess = [id \in SessionIds |-> null]
  /\ prevSuccess = [id \in SessionIds |-> null]
  /\ successCount = [id \in SessionIds |-> 0]

\* The mobile scanner page once its script has run: openCamera() is awaiting
\* the camera, no scanOnce call is running.
ScannerLoaded ==
  [streamRef |-> FALSE, canUseLiveCamera |-> FALSE, scanningActive |-> FALSE,
   uploadInFlight |-> FALSE, scanIntervalRef |-> FALSE, hasCompleted |-> FALSE,
   cameraAsked |-> TRUE, capturing |-> 0, uploading |-> 0, calls |-> 0,
   last |-> "load"]

\* The desktop page once its script has run without autopoll parameters.
DesktopLoaded ==
  [activeSessionId |-> 0, pollHandle |-> 0, form |-> 0, modal |-> FALSE,
   creating |-> 0, created |-> 0, polls |-> EmptyBag, sent |-> 0,
   handled |-> {},
   last |-> [event |-> "load", sessionId |-> 0, answer |-> "none"]]

\* the two pages as loaded
PagesLoaded == scanner = ScannerLoaded /\ desktop = DesktopLoaded

Init ==
  /\ EmptyRegistry
  /\ input = NoInput
  /\ output = NoOutput
  /\ PagesLoaded

\* Time passes.
Tick ==
  /\ now + ClockStepMs <= MaxNow
  /\ now' = now + ClockStepMs
  /\ resp' = NoResponse
  /\ UNCHANGED <<nextId, scanSessions, started, awaiting, lastSuccess, prevSuccess, successCount, input, output, scanner, desktop>>

\* setInterval(cleanupExpiredSessions, 30_000) fires.
Sweep ==
  /\ scanSessions' = cleanupExpiredSessions(scanSessions, now)
  /\ resp' = Swept(scanSessions, scanSessions')
  /\ lastSuccess' = Kept(lastSuccess, scanSessions', null)
  /\ prevSuccess' = Kept(prevSuccess, scanSessions', null)
  /\ successCount' = Kept(successCount, scanSessions', 0)
  /\ UNCHANGED <<now, nextId, started, awaiting, input, output, scanner, desktop>>

\* POST /api/session.  baseUrlOk: getPublicBaseUrl(req) is non-empty;
\* qrOk: QRCode.toDataURL resolves.  The session is stored before either is
\* known, and nothing after the await touches the registry.
CreateSession(baseUrlOk, qrOk) ==
  /\ nextId <= MaxSessions
  /\ LET sessionId == nextId IN
     /\ nextId' = nextId + 1
     /\ scanSessions' = With(cleanupExpiredSessions(scanSessions, now),
                             sessionId, newSession(now))
     /\ resp' =
          IF ~baseUrlOk
          THEN [kind |-> "session", sessionId |-> sessionId, code |-> 500,
                body |-> Error("PUBLIC_BASE_URL must be configured for secure hosted deployment.")]
          ELSE IF ~qrOk
          THEN [kind |-> "session", sessionId |-> sessionId, code |-> 500,
                body |-> Error("error.message")]
          ELSE [kind |-> "session", sessionId |-> sessionId, code |-> 200,
                body |-> [ok |-> TRUE, sessionId |-> sessionId,
                          expiresInSec |-> SESSION_TTL_MS \div 1000]]
  /\ lastSuccess' = Kept(lastSuccess, scanSessions', null)
  /\ prevSuccess' = Kept(prevSuccess, scanSessions', null)
  /\ successCount' = Kept(successCount, scanSessions', 0)
  /\ UNCHANGED <<now, started, awaiting, input, output, scanner, desktop>>

\* POST /api/scan from its first line to the await of runVisionOCR, at time t:
\* the map it leaves, and the response (await: none yet).
scanValidate(sessionId, hasFile, t) ==
  IF sessionId = MissingSessionId
  THEN [await |-> FALSE, sessions |-> scanSessions, code |-> 400,
        body |-> Error("Missing sessionId")]
  ELSE IF sessionId \notin DOMAIN scanSessions
  THEN [await |-> FALSE, sessions |-> scanSessions, code |-> 404,
        body |-> Error("Session not found/expired")]
  ELSE IF isExpired(scanSessions[sessionId], t)
  THEN [await |-> FALSE, sessions |-> Without(scanSessions, {sessionId}),
        code |-> 410, body |-> Error("Session expired")]
  ELSE IF ~hasFile
  THEN [await |-> FALSE, sessions |-> scanSessions, code |-> 400,
        body |-> Error("No image uploaded")]
  ELSE [await |-> TRUE, sessions |-> scanSessions, code |-> 0, body |-> null]

\* Variant of scanFinish: the record is written before the number is checked.
scanFinishWriteFirst(sessionId, ocr, expiryDate, cardholderName, t) ==
  LET cardNumber == CardNumberOf[ocr.text]
      record == cardRecord(cardNumber, cardholderName, expiryDate, t)
      written == IF sessionId \in DOMAIN scanSessions
                 THEN [scanSessions EXCEPT ![sessionId] = attachResult(@, record)]
                 ELSE scanSessions
  IN IF ocr.threw
     THEN [sessions |-> scanSessions, code |-> 500, body |-> Error("Scan failed")]
     ELSE IF cardNumber = <<>>
     THEN [sessions |-> written, code |-> 422,
           body |-> Error("Card number not detected. Please capture again with better lighting.")]
     ELSE IF Len(cardNumber) > MAX_CARD_DIGITS
     THEN [sessions |-> written, code |-> 422,
           body |-> Error("Card number must be 16 digits or less.")]
     ELSE [sessions |-> written,
           code |-> 200,
           body |-> [ok |-> TRUE, message |-> "Card scanned successfully",
                     data |-> scanResponseData(record)]]

\* POST /api/scan from the result of runVisionOCR to its response, at time t.
\* session is the object the handler looked up before the await.  Session ids
\* are never reused and the map never replaces the object of a key, so that
\* object is the map's value of sessionId while the key is there; once the key
\* was deleted the object is reachable from this handler alone, and the writes
\* to it change nothing the registry holds.
scanFinish(sessionId, ocr, expiryDate, cardholderName, t) ==
  LET cardNumber == CardNumberOf[ocr.text]
      record == cardRecord(cardNumber, cardholderName, expiryDate, t)
  IN IF ocr.threw
     THEN [sessions |-> scanSessions, code |-> 500, body |-> Error("Scan failed")]
     ELSE IF cardNumber = <<>>
     THEN [sessions |-> scanSessions, code |-> 422,
           body |-> Error("Card number not detected. Please capture again with better lighting.")]
     ELSE IF Len(cardNumber) > MAX_CARD_DIGITS
     THEN [sessions |-> scanSessions, code |-> 422,
           body |-> Error("Card number must be 16 digits or less.")]
     ELSE [sessions |->
             IF sessionId \in DOMAIN scanSessions
             THEN [scanSessions EXCEPT ![sessionId] = attachResult(@, record)]
             ELSE scanSessions,
           code |-> 200,
           body |-> [ok |-> TRUE, message |-> "Card scanned successfully",
                     data |-> scanResponseData(record)]]

\* An upload request arrives and its handler runs to its first response or to
\* the await.
ScanBegin(sessionId, hasFile) ==
  /\ started < MaxUploads
  /\ started' = started + 1
  /\ LET r == scanValidate(sessionId, hasFile, now) IN
     /\ scanSessions' = r.sessions
     /\ awaiting' = IF r.await
                    THEN awaiting (+) SetToBag({AwaitingAt(sessionId, now)})
                    ELSE awaiting
     /\ resp' = IF r.await THEN NoResponse
                ELSE [kind |-> "scan", sessionId |-> sessionId, timedOut |-> FALSE,
                      code |-> r.code, body |-> r.body]
  /\ lastSuccess' = Kept(lastSuccess, scanSessions', null)
  /\ prevSuccess' = Kept(prevSuccess, scanSessions', null)
  /\ successCount' = Kept(successCount, scanSessions', 0)
  /\ UNCHANGED <<now, nextId, input, output, scanner, desktop>>

\* The recognizer answers the suspended handler h, which runs to its response.
ScanComplete(h, ocr, expiryDate, cardholderName) ==
  /\ BagIn(h, awaiting)
  /\ LET r == scanFinish(h.sessionId, ocr, expiryDate, cardholderName, now) IN
     /\ scanSessions' = r.sessions
     /\ awaiting' = awaiting (-) SetToBag({h})
     /\ resp' = [kind |-> "scan", sessionId |-> h.sessionId,
                 timedOut |-> h.timedOut, code |-> r.code, body |-> r.body]
     /\ IF r.code = 200 /\ h.sessionId \in DOMAIN scanSessions
        THEN /\ lastSuccess' =
                  [lastSuccess EXCEPT ![h.sessionId] =
                     cardRecord(CardNumberOf[ocr.text], cardholderName,
                                expiryDate, now)]
             /\ prevSuccess' = [prevSuccess EXCEPT ![h.sessionId] = lastSuccess[h.sessionId]]
             /\ successCount' = [successCount EXCEPT ![h.sessionId] = @ + 1]
        ELSE UNCHANGED <<lastSuccess, prevSuccess, successCount>>
  /\ UNCHANGED <<now, nextId, started, input, output, scanner, desktop>>

\* The $.ajax timeout of uploadBlob expires in the browser while the server
\* still awaits the recognizer; the server-side handler h is not told.
ClientTimeout(h) ==
  /\ BagIn(h, awaiting)
  /\ ~h.timedOut
  /\ now - h.sentAt >= UPLOAD_TIMEOUT_MS
  /\ awaiting' = (awaiting (-) SetToBag({h}))
                   (+) SetToBag({[h EXCEPT !.timedOut = TRUE]})
  /\ resp' = NoResponse
  /\ UNCHANGED <<now, nextId, scanSessions, started, lastSuccess, prevSuccess, successCount, input, output, scanner, desktop>>

\* GET /api/get-data: cleanupExpiredSessions() reads the clock as t1, the
\* expiry check and the delivery stamp read it as t2 >= t1.
getData(sessionId, t1, t2) ==
  LET swept == cleanupExpiredSessions(scanSessions, t1) IN
  IF sessionId = MissingSessionId
  THEN [sessions |-> swept, code |-> 400, body |-> Error("Missing sessionId")]
  ELSE IF sessionId \notin DOMAIN swept
  THEN [sessions |-> swept, code |-> 404,
        body |-> Error("Session not found/expired")]
  ELSE IF isExpired(swept[sessionId], t2)
  THEN [sessions |-> Without(swept, {sessionId}), code |-> 410,
        body |-> Error("Session expired")]
  ELSE IF isPending(swept[sessionId])
  THEN [sessions |-> swept, code |-> 200,
        body |-> [ok |-> TRUE, status |-> "pending"]]
  ELSE [sessions |-> [swept EXCEPT ![sessionId] = markDelivered(@, t2)],
        code |-> 200,
        body |-> [ok |-> TRUE, status |-> "ready",
                  data |-> markDelivered(swept[sessionId], t2).data]]

\* A poll request is handled.
Poll(sessionId, t2) ==
  LET r == getData(sessionId, now, t2) IN
  /\ now' = t2
  /\ scanSessions' = r.sessions
  /\ resp' = [kind |-> "poll", sessionId |-> sessionId, code |-> r.code,
              body |-> r.body]
  /\ lastSuccess' = Kept(lastSuccess, scanSessions', null)
  /\ prevSuccess' = Kept(prevSuccess, scanSessions', null)
  /\ successCount' = Kept(successCount, scanSessions', 0)
  /\ UNCHANGED <<nextId, started, awaiting, input, output, scanner, desktop>>

\* GET /api/health
Health ==
  /\ resp' = [kind |-> "health", code |-> 200,
              body |-> [ok |-> TRUE, service |-> "card-scanner",
                        activeSessions |-> Cardinality(DOMAIN scanSessions)]]
  /\ UNCHANGED <<now, nextId, scanSessions, started, awaiting, lastSuccess, prevSuccess, successCount, input, output, scanner, desktop>>

Next ==
  \/ Tick
  \/ Sweep
  \/ \E baseUrlOk \in BOOLEAN, qrOk \in BOOLEAN : CreateSession(baseUrlOk, qrOk)
  \/ \E sessionId \in RequestIds, hasFile \in BOOLEAN : ScanBegin(sessionId, hasFile)
  \/ \E h \in BagToSet(awaiting), ocr \in OcrOutcomes,
        expiryDate \in ExpiryValues, cardholderName \in NameValues :
       ScanComplete(h, ocr, expiryDate, cardholderName)
  \/ \E h \in BagToSet(awaiting) : ClientTimeout(h)
  \/ \E sessionId \in RequestIds, t2 \in ClockReads : Poll(sessionId, t2)
  \/ Health

Spec == Init /\ [][Next]_vars

\* The process keeps running: the clock advances and the interval timer of
\* setInterval(cleanupExpiredSessions, 30_000) keeps firing, whatever the
\* clients do.
LiveSpec == Init /\ [][Next]_vars /\ WF_vars(Tick) /\ WF_vars(Sweep)
\* ------------------------------------------------- the engine's functions alone
\* Texts the functions of the engine are applied to, each with what is known
\* of it from the way it is put together.

\* Digit strings of every length a card number may have, ending in every
\* pair of digits.
DigitStem == <<"4", "9", "2", "7", "3", "9", "8", "7", "1", "6", "0", "5", "8", "3">>
DigitInputs ==
  {[kind |-> "digits", text |-> SubSeq(DigitStem, 1, n - 2) \o <<a, b>>] :
     n \in MIN_CARD_DIGITS..MAX_CARD_DIGITS, a \in Digits, b \in Digits}

\* A run of digits, as printed, between a noise prefix and a noise suffix
\* without digits.
CardRuns ==
  {<<"4", "1", "1", "1", "1", "1", "1", "1", "1", "1", "1", "1", "1", "1", "1", "1">>,
   <<"4", "1", "1", "1", " ", "1", "1", "1", "1", " ", "1", "1", "1", "1", " ", "1", "1", "1", "1">>,
   <<"4", "1", "1", "1", "-", "1", "1", "1", "1", "-", "1", "1", "1", "1", "-", "1", "1", "1", "1">>,
   <<"4", "1", "1", "1", " ", " ", "1", "1", "1", "1", " ", " ", "1", "1", "1", "1", " ", " ", "1", "1", "1", "1">>,
   <<"5", "5", "0", "0", "0", "0", "0", "0", "0", "0", "0", "0", "0", "0", "0", "4">>,
   <<"3", "7", "8", "2", "8", "2", "2", "4", "6", "3", "1", "0", "0", "0", "5">>,
   <<"3", "0", "5", "6", "9", "3", "0", "9", "0", "2", "5", "9", "0", "4">>,
   <<"4", "2", "2", "2", "2", "2", "2", "2", "2", "2", "2", "2", "2">>,
   <<"4", "1", "1", "1", "1", "1", "1", "1", "1", "1", "1", "1", "1", "1", "1", "2">>,
   <<"4", "1", "1", "1", "1", "1", "1", "1", "1", "1", "1", "1", "1", "1", "1", "1", "1", "2", "3">>,
   <<"1", "2", "3", "4", " ", "5", "6", "7", "8", " ", "9", "0", "1", "2", " ", "3", "4", "5", "6", " ", "7", "8", "9", "0", " ", "1", "2", "3", "4">>}
NoisePrefixes ==
  {<<>>,
   <<"#", " ">>,
   <<"I", "D", " ">>,
   <<"N", "O", " ">>,
   <<"C", "A", "R", "D", " ">>,
   <<"V", "I", "S", "A", " ", "G", "O", "L", "D", "\n">>}
NoiseSuffixes ==
  {<<>>,
   <<" ", "O", "K">>,
   <<" ", "*">>,
   <<"\n", "J", "O", "H", "N", " ", "S", "M", "I", "T", "H">>}
CardInputs ==
  {[kind |-> "card", text |-> prefix \o run \o suffix, run |-> run,
    prefix |-> prefix, suffix |-> suffix] :
     prefix \in NoisePrefixes, run \in CardRuns, suffix \in NoiseSuffixes}

\* Two dates as printed (text), each with the MM/YY it stands for (expiry)
\* and its month and year as numbers, laid out with or without keywords.
PrintedDates ==
  {[text |-> <<"0", "3", "/", "2", "4">>, expiry |-> <<"0", "3", "/", "2", "4">>, month |-> 3, year |-> 24],
   [text |-> <<"0", "9", "/", "2", "6">>, expiry |-> <<"0", "9", "/", "2", "6">>, month |-> 9, year |-> 26],
   [text |-> <<"1", "2", "/", "2", "5">>, expiry |-> <<"1", "2", "/", "2", "5">>, month |-> 12, year |-> 25],
   [text |-> <<"0", "1", "/", "2", "6">>, expiry |-> <<"0", "1", "/", "2", "6">>, month |-> 1, year |-> 26],
   [text |-> <<"1", "1", "-", "2", "0", "2", "7">>, expiry |-> <<"1", "1", "/", "2", "7">>, month |-> 11, year |-> 27],
   [text |-> <<"O", "3", " ", "/", " ", "2", "G">>, expiry |-> <<"0", "3", "/", "2", "6">>, month |-> 3, year |-> 26]}
ExpiryLayouts ==
  {"same line", "two lines", "from thru on the line", "thru from on the line",
   "from thru on the line before", "thru line then from line",
   "from line then thru line", "dates then from thru", "lower case from thru"}
ExpiryText(layout, a, b) ==
  CASE layout = "same line" -> a \o <<" ">> \o b
    [] layout = "two lines" -> a \o <<"\n">> \o b
    [] layout = "from thru on the line" ->
         <<"V", "A", "L", "I", "D", " ", "F", "R", "O", "M", " ">> \o a \o <<" ", "V", "A", "L", "I", "D", " ", "T", "H", "R", "U", " ">> \o b
    [] layout = "thru from on the line" ->
         <<"E", "X", "P", " ">> \o a \o <<" ", "I", "S", "S", "U", "E", "D", " ">> \o b
    [] layout = "from thru on the line before" ->
         <<"V", "A", "L", "I", "D", " ", "F", "R", "O", "M", " ", "V", "A", "L", "I", "D", " ", "T", "H", "R", "U", "\n">> \o a \o <<" ">> \o b
    [] layout = "thru line then from line" ->
         <<"T", "H", "R", "U", " ">> \o a \o <<"\n", "F", "R", "O", "M", " ">> \o b
    [] layout = "dates then from thru" ->
         <<" ">> \o a \o <<" ", "-", " ">> \o b \o <<" ", "S", "I", "N", "C", "E", "/", "E", "X", "P", "I", "R", "E", "S">>
    [] layout = "lower case from thru" ->
         <<"f", "r", "o", "m", ":">> \o a \o <<" ", "t", "h", "r", "o", "u", "g", "h", ":">> \o b
    [] layout = "from line then thru line" ->
         <<"V", "A", "L", "I", "D", " ", "F", "R", "O", "M", " ">> \o a \o <<"\n", "V", "A", "L", "I", "D", " ", "T", "H", "R", "U", " ">> \o b
\* the layouts in which one line pairs a from keyword with a thru keyword and
\* the two dates are on it, or both on the line after it
SingleLineLayouts ==
  {"from thru on the line", "thru from on the line", "dates then from thru",
   "lower case from thru"}
PairedLayouts == SingleLineLayouts \cup {"from thru on the line before"}
DatePairs == {pair \in PrintedDates \X PrintedDates : pair[1].expiry # pair[2].expiry}
ExpiryInputs ==
  {[kind |-> "expiry", text |-> ExpiryText(layout, pair[1].text, pair[2].text),
    layout |-> layout, first |-> pair[1], second |-> pair[2]] :
     layout \in ExpiryLayouts, pair \in DatePairs}

\* Every text of at most MaxNoiseLen characters of digits, rewritten letters in
\* both cases, and characters the normalizer leaves alone.
TextAlphabet ==
  {"o", "Q", "d", "i", "L", "|", "s", "B", "z", "G", "0", "7", "a", "K", "-"}
RECURSIVE TextsUpTo(_)
TextsUpTo(n) ==
  IF n = 0 THEN {<<>>}
  ELSE LET shorter == TextsUpTo(n - 1) IN
       shorter \cup {Append(t, c) : t \in shorter, c \in TextAlphabet}
NoiseInputs == {[kind |-> "noise", text |-> t] : t \in TextsUpTo(MaxNoiseLen)}

\* A date after a thru keyword whose year is printed with 1 to MaxYearLen
\* characters: digits and a letter read as a digit.
YearAlphabet == {"2", "7", "O"}
RECURSIVE YearsUpTo(_)
YearsUpTo(n) ==
  IF n = 0 THEN {<<>>}
  ELSE LET shorter == YearsUpTo(n - 1) IN
       shorter \cup {Append(y, c) : y \in shorter, c \in YearAlphabet}
YearInputs ==
  {[kind |-> "year", text |-> <<"E", "X", "P", " ", "1", "1", "/">> \o y, year |-> y] :
     y \in YearsUpTo(MaxYearLen) \ {<<>>}}

\* Card numbers by their leading digits: each prefix filled with zeros to
\* every card length, followed by a last digit, and five numbers as printed.
BinPrefixes ==
  {<<"4">>,
   <<"5", "1">>,
   <<"5", "5">>,
   <<"5", "6">>,
   <<"5", "0">>,
   <<"5", "0", "8">>,
   <<"2", "2", "2", "1">>,
   <<"2", "2", "2", "0">>,
   <<"2", "3">>,
   <<"2", "7", "2", "0">>,
   <<"2", "7", "2", "1">>,
   <<"2", "7", "1", "9">>,
   <<"6", "0">>,
   <<"6", "0", "1", "1">>,
   <<"6", "0", "7", "6">>,
   <<"6", "5">>,
   <<"6", "5", "0", "0">>,
   <<"6", "4">>,
   <<"8", "1">>,
   <<"8", "2">>,
   <<"8", "3">>,
   <<"3", "4">>,
   <<"3", "7">>,
   <<"3", "6">>,
   <<"3">>,
   <<"1">>,
   <<"9">>}
ExampleNumbers ==
  {<<"4", "1", "1", "1", "1", "1", "1", "1", "1", "1", "1", "1", "1", "1", "1", "1">>,
   <<"5", "5", "0", "0", "0", "0", "0", "0", "0", "0", "0", "0", "0", "0", "0", "4">>,
   <<"6", "0", "1", "1", "0", "0", "0", "0", "0", "0", "0", "0", "0", "0", "0", "4">>,
   <<"3", "4", "0", "0", "0", "0", "0", "0", "0", "0", "0", "0", "0", "0", "9">>,
   <<"6", "0", "7", "6", "0", "0", "0", "0", "0", "0", "0", "0", "0", "0", "0", "0">>}
Zeros(n) == [i \in 1..n |-> "0"]
BinInputs ==
  {[kind |-> "bin", text |-> prefix \o Zeros(n - 1 - Len(prefix)) \o <<last>>] :
     prefix \in BinPrefixes, n \in MIN_CARD_DIGITS..MAX_CARD_DIGITS,
     last \in {"0", "4", "9"}}
    \cup {[kind |-> "bin", text |-> number] : number \in ExampleNumbers}

\* Lines as printed on a card.  A line is marked rejected when, once a leading
\* honorific is dropped, it has a single word or only words of the blocklist,
\* and rest is then what remains of it.
PrintedLines ==
  {[text |-> <<"J", "O", "H", "N", " ", "S", "M", "I", "T", "H">>, rejected |-> FALSE, rest |-> <<>>],
   [text |-> <<"j", "o", "h", "n", " ", "a", " ", "s", "m", "i", "t", "h">>, rejected |-> FALSE, rest |-> <<>>],
   [text |-> <<"D", "R", " ", "R", "A", "V", "I", " ", "K", "U", "M", "A", "R", " ", "V", "E", "R", "M", "A">>, rejected |-> FALSE, rest |-> <<>>],
   [text |-> <<"J", "0", "H", "N", " ", "S", "M", "1", "T", "H">>, rejected |-> FALSE, rest |-> <<>>],
   [text |-> <<"4", "1", "1", "1", " ", "1", "1", "1", "1", " ", "1", "1", "1", "1", " ", "1", "1", "1", "1">>, rejected |-> FALSE, rest |-> <<>>],
   [text |-> <<"5", "5", "0", "0", "-", "0", "0", "0", "0", "-", "0", "0", "0", "0", "-", "0", "0", "0", "4">>, rejected |-> FALSE, rest |-> <<>>],
   [text |-> <<"V", "A", "L", "I", "D", " ", "T", "H", "R", "U", " ", "0", "9", "/", "2", "6">>, rejected |-> FALSE, rest |-> <<>>],
   [text |-> <<"B", "R", "T", " ", "K", "L", "M">>, rejected |-> FALSE, rest |-> <<>>],
   [text |-> <<"A", "N", "N", "A", " ", "M", "A", "R", "I", "A", " ", "D", "E", " ", "L", "A", " ", "C", "R", "U", "Z">>, rejected |-> FALSE, rest |-> <<>>],
   [text |-> <<"A", "L", " ", "B", "O">>, rejected |-> FALSE, rest |-> <<>>],
   [text |-> <<"A", "L", " ", "B">>, rejected |-> FALSE, rest |-> <<>>],
   [text |-> <<"S", "T", "A", "T", "E", " ", "B", "A", "N", "K">>, rejected |-> FALSE, rest |-> <<>>],
   [text |-> <<"A", "A", "A", " ", "A", "B", " ", "A", "B", " ", "A", "B">>, rejected |-> FALSE, rest |-> <<>>],
   [text |-> <<" ", " ", "M", "a", "r", "y", "-", "J", "a", "n", "e", " ", " ", "O", "'", "N", "e", "i", "l", " ">>, rejected |-> FALSE, rest |-> <<>>],
   [text |-> <<"S", "H", "R", "I", " ", "S", "H", "R", "I", " ", "R", "A", "V", "I">>, rejected |-> FALSE, rest |-> <<>>],
   [text |-> <<"C", "H", "R", "I", "S", "T", "O", "P", "H", "E", "R", "S", "O", "N", "S", " ", "L", "I">>, rejected |-> FALSE, rest |-> <<>>],
   [text |-> <<"S", "M", "I", "T", "H">>,
    rejected |-> TRUE, rest |-> <<"S", "M", "I", "T", "H">>],
   [text |-> <<"M", "R", " ", "S", "M", "I", "T", "H">>,
    rejected |-> TRUE, rest |-> <<"S", "M", "I", "T", "H">>],
   [text |-> <<"M", "r", "s", ".", " ", "R", "o", "b", "i", "n", "s", "o", "n">>,
    rejected |-> TRUE, rest |-> <<"R", "O", "B", "I", "N", "S", "O", "N">>],
   [text |-> <<"V", "I", "S", "A", " ", "P", "L", "A", "T", "I", "N", "U", "M">>,
    rejected |-> TRUE, rest |-> <<"V", "I", "S", "A", " ", "P", "L", "A", "T", "I", "N", "U", "M">>],
   [text |-> <<"D", "R", " ", "C", "R", "E", "D", "I", "T", " ", "C", "A", "R", "D">>,
    rejected |-> TRUE, rest |-> <<"C", "R", "E", "D", "I", "T", " ", "C", "A", "R", "D">>],
   [text |-> <<"M", "E", "M", "B", "E", "R", " ", "S", "I", "N", "C", "E">>,
    rejected |-> TRUE, rest |-> <<"M", "E", "M", "B", "E", "R", " ", "S", "I", "N", "C", "E">>]}
\* Texts of one printed line and of two.
NameInputs ==
  {[kind |-> "name", text |-> a.text, lines |-> <<a>>] : a \in PrintedLines}
    \cup {[kind |-> "name", text |-> a.text \o <<"\n">> \o b.text, lines |-> <<a, b>>] :
            a \in PrintedLines, b \in PrintedLines}

Inputs ==
  NameInputs \cup BinInputs \cup DigitInputs \cup CardInputs \cup ExpiryInputs \cup NoiseInputs \cup YearInputs

TextInit ==
  /\ EmptyRegistry
  /\ input \in Inputs
  /\ output = NoOutput
  /\ PagesLoaded

\* One function of the engine is applied to the input.
ApplyExtractCardNumber ==
  /\ output = NoOutput
  /\ output' = [fn |-> "extractCardNumber", value |-> extractCardNumber(input.text)]
  /\ UNCHANGED <<now, nextId, scanSessions, started, awaiting, resp, lastSuccess, prevSuccess, successCount, input, scanner, desktop>>

ApplyLuhnCheck ==
  /\ output = NoOutput
  /\ input.kind = "digits"
  /\ output' = [fn |-> "luhnCheck", value |-> luhnCheck(input.text)]
  /\ UNCHANGED <<now, nextId, scanSessions, started, awaiting, resp, lastSuccess, prevSuccess, successCount, input, scanner, desktop>>

ApplyNormalize ==
  /\ output = NoOutput
  /\ output' = [fn |-> "normalizeDigitLikeText",
                value |-> normalizeDigitLikeText(input.text)]
  /\ UNCHANGED <<now, nextId, scanSessions, started, awaiting, resp, lastSuccess, prevSuccess, successCount, input, scanner, desktop>>

\* ... and applied once more to what it returned.
ApplyNormalizeAgain ==
  /\ output.fn = "normalizeDigitLikeText"
  /\ output' = [fn |-> "normalizeDigitLikeText twice", once |-> output.value,
                value |-> normalizeDigitLikeText(output.value)]
  /\ UNCHANGED <<now, nextId, scanSessions, started, awaiting, resp, lastSuccess, prevSuccess, successCount, input, scanner, desktop>>

ApplyExtractExpiry ==
  /\ output = NoOutput
  /\ output' = [fn |-> "extractExpiry", value |-> extractExpiry(input.text)]
  /\ UNCHANGED <<now, nextId, scanSessions, started, awaiting, resp, lastSuccess, prevSuccess, successCount, input, scanner, desktop>>

ApplyDetectCardType ==
  /\ output = NoOutput
  /\ input.kind = "bin"
  /\ output' = [fn |-> "detectCardType", value |-> detectCardType(input.text)]
  /\ UNCHANGED <<now, nextId, scanSessions, started, awaiting, resp, lastSuccess, prevSuccess, successCount, input, scanner, desktop>>

ApplyExtractCardholderName ==
  /\ output = NoOutput
  /\ output' = [fn |-> "extractCardholderName",
                value |-> extractCardholderName(input.text)]
  /\ UNCHANGED <<now, nextId, scanSessions, started, awaiting, resp, lastSuccess, prevSuccess, successCount, input, scanner, desktop>>

TextNext ==
  \/ ApplyExtractCardholderName
  \/ ApplyDetectCardType
  \/ ApplyExtractCardNumber
  \/ ApplyLuhnCheck
  \/ ApplyNormalize
  \/ ApplyNormalizeAgain
  \/ ApplyExtractExpiry

TextSpec == TextInit /\ [][TextNext]_vars

\* ------------------------------------------------------- the mobile scanner
\* The scanner page of public/index.js by itself: the user's clicks, the
\* interval timer, and the completions of the awaits of scanOnce, in every
\* order.  capturing and uploading count the scanOnce calls suspended at
\* await captureFrameBlob() and at await uploadBlob(blob): uploading is the
\* number of upload requests outstanding.

stopRealtimeScan(page) ==
  [page EXCEPT !.scanningActive = FALSE, !.uploadInFlight = FALSE,
               !.scanIntervalRef = FALSE]

\* scanOnce() from its first line to its first await
scanOnce(page) ==
  IF ~page.scanningActive \/ page.uploadInFlight \/ page.hasCompleted THEN page
  ELSE IF ~page.streamRef \/ ~page.canUseLiveCamera THEN page
  ELSE [page EXCEPT !.uploadInFlight = TRUE, !.capturing = @ + 1, !.calls = @ + 1]

startRealtimeScan(page) ==
  IF ~page.canUseLiveCamera \/ ~page.streamRef THEN page
  ELSE scanOnce([page EXCEPT !.scanningActive = TRUE, !.hasCompleted = FALSE,
                             !.scanIntervalRef = TRUE])

\* handleSuccessfulScan(), with stopCameraStream()
handleSuccessfulScan(page) ==
  [stopRealtimeScan([page EXCEPT !.hasCompleted = TRUE]) EXCEPT !.streamRef = FALSE]

\* the finally block of scanOnce
scanOnceFinally(page) == [page EXCEPT !.uploadInFlight = FALSE]

\* what an upload request may end with, as scanOnce tells them apart
UploadAnswers == {"ok", "unreadable", "gone", "failed"}

ScannerStep(page, event) ==
  /\ page.calls <= MaxScanCalls
  /\ scanner' = [page EXCEPT !.last = event]
  /\ UNCHANGED <<registryVars, textVars, desktop>>

\* await navigator.mediaDevices.getUserMedia(...) of openCamera() ends
CameraAnswered(granted) ==
  /\ scanner.cameraAsked
  /\ ScannerStep([scanner EXCEPT !.cameraAsked = FALSE, !.streamRef = granted,
                                 !.canUseLiveCamera = granted], "camera")

\* $('#scanBtn') click; the button is disabled once the camera is refused
ClickScanBtn ==
  /\ scanner.cameraAsked \/ scanner.canUseLiveCamera
  /\ ScannerStep(IF scanner.scanningActive THEN stopRealtimeScan(scanner)
                 ELSE startRealtimeScan(scanner), "click")

\* the timer of setInterval(scanOnce, SCAN_INTERVAL_MS) fires
IntervalTick ==
  /\ scanner.scanIntervalRef
  /\ ScannerStep(scanOnce(scanner), "tick")

\* await captureFrameBlob() of a scanOnce call ends: without a blob the call
\* returns through finally, with one it sends the upload request
CaptureDone(hasBlob) ==
  /\ scanner.capturing > 0
  /\ ScannerStep(IF hasBlob
                 THEN [scanner EXCEPT !.capturing = @ - 1, !.uploading = @ + 1]
                 ELSE scanOnceFinally([scanner EXCEPT !.capturing = @ - 1]),
                 IF hasBlob THEN "upload sent" ELSE "no frame")

\* await uploadBlob(blob) of a scanOnce call ends
UploadDone(answer) ==
  /\ scanner.uploading > 0
  /\ ScannerStep(
       scanOnceFinally(
         IF answer = "ok"
         THEN handleSuccessfulScan([scanner EXCEPT !.uploading = @ - 1])
         ELSE IF answer = "gone"
         THEN stopRealtimeScan([scanner EXCEPT !.uploading = @ - 1])
         ELSE [scanner EXCEPT !.uploading = @ - 1]),
       answer)

ScannerNext ==
  \/ \E granted \in BOOLEAN : CameraAnswered(granted)
  \/ ClickScanBtn
  \/ IntervalTick
  \/ \E hasBlob \in BOOLEAN : CaptureDone(hasBlob)
  \/ \E answer \in UploadAnswers : UploadDone(answer)

ScannerSpec == Init /\ [][ScannerNext]_vars

\* ------------------------------------------------------- the desktop page
\* The desktop page of public/index.js by itself: the user's clicks, the poll
\* timer, and the answers to its requests, in every order and with every
\* answer the server can give.  A session id is 1, 2, ...; 0 stands for null.
\* pollHandle is the session id the interval timer polls: the handle of every
\* setInterval is kept in pollHandle and cleared before it is replaced.
\* handled is history: the sessions for which the page handled a ready or a
\* 404/410 answer while its timer was polling them.

\* a stopPolling() that leaves the timer running
stopPollingKept(page) == page

stopPolling(page) == [page EXCEPT !.pollHandle = 0]

\* pollOnce(sessionId): the request is sent
pollOnce(page, sessionId) ==
  [page EXCEPT !.polls = @ (+) SetToBag({sessionId}), !.sent = @ + 1]

startPolling(page, sessionId) ==
  [pollOnce(stopPolling(page), sessionId) EXCEPT !.pollHandle = sessionId]

\* the page loaded with ?sessionId=1&autopoll=1
DesktopAutopoll ==
  startPolling([DesktopLoaded EXCEPT !.activeSessionId = 1, !.created = 1], 1)

\* what a poll request may end with, as pollOnce tells them apart
PollAnswers == {"pending", "ready", "gone", "failed"}

DesktopStep(page, event, sessionId, answer) ==
  /\ page.sent <= MaxPolls
  /\ desktop' = [page EXCEPT !.last = [event |-> event, sessionId |-> sessionId,
                                       answer |-> answer]]
  /\ UNCHANGED <<registryVars, textVars, scanner>>

\* $('#openScannerBtn') click: POST /api/session is sent
ClickOpenScanner ==
  /\ ~desktop.modal
  /\ desktop.created + desktop.creating < MaxPageSessions
  /\ DesktopStep([desktop EXCEPT !.creating = @ + 1], "open", 0, "none")

\* the answer to POST /api/session on a desktop browser
CreateDone(ok) ==
  /\ desktop.creating > 0
  /\ DesktopStep(
       IF ok
       THEN startPolling([desktop EXCEPT !.creating = @ - 1,
                                         !.created = @ + 1,
                                         !.activeSessionId = desktop.created + 1,
                                         !.modal = TRUE],
                         desktop.created + 1)
       ELSE [desktop EXCEPT !.creating = @ - 1],
       "session", IF ok THEN desktop.created + 1 ELSE 0,
       IF ok THEN "ok" ELSE "failed")

\* $('#closeModalBtn') click
ClickCloseModal ==
  /\ desktop.modal
  /\ DesktopStep([stopPolling(desktop) EXCEPT !.modal = FALSE, !.activeSessionId = 0],
                 "close", 0, "none")

\* the timer of setInterval(function() { pollOnce(sessionId) }, 1500) fires
PollTick ==
  /\ desktop.pollHandle # 0
  /\ DesktopStep(pollOnce(desktop, desktop.pollHandle), "tick", desktop.pollHandle, "none")

\* the session of an answer joins the history when the timer was polling it
Handled(page, sessionId) ==
  IF page.pollHandle = sessionId THEN page.handled \cup {sessionId} ELSE page.handled

\* the .done and .fail callbacks of pollOnce(sessionId)
PollDone(sessionId, answer) ==
  /\ BagIn(sessionId, desktop.polls)
  /\ DesktopStep(
       IF answer = "ready"
       THEN [stopPolling(desktop) EXCEPT !.polls = @ (-) SetToBag({sessionId}),
                                         !.form = sessionId,
                                         !.modal = FALSE,
                                         !.activeSessionId = 0,
                                         !.handled = Handled(desktop, sessionId)]
       ELSE IF answer = "gone"
       THEN [stopPolling(desktop) EXCEPT !.polls = @ (-) SetToBag({sessionId}),
                                         !.activeSessionId = 0,
                                         !.handled = Handled(desktop, sessionId)]
       ELSE [desktop EXCEPT !.polls = @ (-) SetToBag({sessionId})],
       "poll response", sessionId, answer)

DesktopInit ==
  /\ EmptyRegistry
  /\ input = NoInput
  /\ output = NoOutput
  /\ scanner = ScannerLoaded
  /\ desktop \in {DesktopLoaded, DesktopAutopoll}

DesktopNext ==
  \/ ClickOpenScanner
  \/ \E ok \in BOOLEAN : CreateDone(ok)
  \/ ClickCloseModal
  \/ PollTick
  \/ \E sessionId \in 1..MaxPageSessions, answer \in PollAnswers :
       PollDone(sessionId, answer)

DesktopSpec == DesktopInit /\ [][DesktopNext]_vars

\* ------------------------------------------------------------ properties
\* The reply of a handler result, as the client sees it.
Reply(r) == <<r.code, r.body>>

\* The session id was handed out and its session has expired by now: it is
\* stored with expiresAt <= now, or was removed (only expired sessions are).
ExistedAndExpired(id) ==
  /\ id \in Allocated
  /\ id \in DOMAIN scanSessions => scanSessions[id].expiresAt <= now

\* The session id is stored and not expired at the current instant.
Live(id) == id \in DOMAIN scanSessions /\ scanSessions[id].expiresAt > now

\* C1: an upload never reports success for a session id that is absent or
\* expired at the moment its result is written.
C1_UploadSuccessOnlyForLiveSession ==
  (resp.kind = "scan" /\ resp.code = 200) => Live(resp.sessionId)

\* C2: a poll for a session id whose expiresAt has passed never answers
\* pending or ready, swept or not; it answers 404 or 410.
C2_ExpiredPollIsError ==
  (resp.kind = "poll" /\ resp.sessionId \in Allocated /\ ~Live(resp.sessionId))
    => resp.code \in {404, 410}

\* C2 witness: a poll found the expired session still stored and answered 410.
C2_Witness ==
  resp.kind = "poll" /\ resp.sessionId \in Allocated /\ resp.code = 410

\* C3: a session that is ready never becomes pending again while it is in
\* the registry.
C3_ReadyNeverPending ==
  [][\A id \in DOMAIN scanSessions \cap DOMAIN scanSessions' :
       scanSessions[id].status = "ready" => scanSessions'[id].status = "ready"]_vars

\* C3 witness: a ready session was served by a poll and is still ready.
C3_Witness ==
  /\ resp.kind = "poll" /\ resp.code = 200 /\ resp.body.status = "ready"
  /\ scanSessions[resp.sessionId].status = "ready"

\* C4: for every stored session, data is non-null exactly when status is ready.
C4_DataIffReady ==
  \A id \in DOMAIN scanSessions :
    scanSessions[id].data # null <=> scanSessions[id].status = "ready"

\* C4 witness: an upload has just succeeded on a stored session.
C4_Witness ==
  /\ resp.kind = "scan" /\ resp.code = 200
  /\ resp.sessionId \in DOMAIN scanSessions
  /\ scanSessions[resp.sessionId].status = "ready"

\* C5: a poll that answers ready returns a complete record, every field of
\* which was written by one upload.
C5_ReadyPollSeesWholeRecord ==
  (resp.kind = "poll" /\ resp.code = 200 /\ resp.body.status = "ready") =>
    LET data == resp.body.data IN
    /\ data # null
    /\ Len(data.cardNumber) \in MIN_CARD_DIGITS..MAX_CARD_DIGITS
    /\ data.maskedCardNumber = maskCardNumber(data.cardNumber)
    /\ data.cardType = detectCardType(data.cardNumber)
    /\ data.cardholderName \in NameValues
    /\ data.expiryDate \in ExpiryValues
    /\ data.scannedAt \in 0..now
    /\ AsWritten(data) \in {lastSuccess[resp.sessionId], prevSuccess[resp.sessionId]}

\* C5 witness: a poll answered ready while another upload to the same session
\* was still awaiting the recognizer.
C5_Witness ==
  /\ resp.kind = "poll" /\ resp.code = 200 /\ resp.body.status = "ready"
  /\ \E h \in BagToSet(awaiting) : h.sessionId = resp.sessionId

C7_PollAndUploadSameCode ==
  \A sessionId \in RequestIds, hasFile \in BOOLEAN :
    LET poll == getData(sessionId, now, now)
        upload == scanValidate(sessionId, hasFile, now)
    IN (poll.code \in {404, 410} /\ upload.code \in {404, 410})
         => poll.code = upload.code

\* C8: a poll of an unexpired session answers pending before any upload to it
\* has succeeded, and afterwards answers ready with the record of the latest
\* successful upload, on every poll.
C8_PollAnswers ==
  (resp.kind = "poll" /\ Live(resp.sessionId)) =>
    /\ resp.code = 200
    /\ IF successCount[resp.sessionId] = 0
       THEN resp.body = [ok |-> TRUE, status |-> "pending"]
       ELSE /\ resp.body.status = "ready"
            /\ AsWritten(resp.body.data) = lastSuccess[resp.sessionId]

\* C8 witness: a poll answered ready with a record delivered at an earlier
\* instant.
C8_Witness ==
  /\ resp.kind = "poll" /\ resp.code = 200 /\ resp.body.status = "ready"
  /\ resp.body.data.deliveredAt # NoTime
  /\ resp.body.data.deliveredAt < now

\* C9: after two successful uploads to an unexpired session the stored record
\* is the later one, and a poll returns it and not the earlier one.
C9_LastWriteWins ==
  \A id \in DOMAIN scanSessions :
    successCount[id] >= 2 =>
      /\ scanSessions[id].status = "ready"
      /\ AsWritten(scanSessions[id].data) = lastSuccess[id]
      /\ (resp.kind = "poll" /\ resp.sessionId = id /\ resp.code = 200) =>
           /\ resp.body.status = "ready"
           /\ AsWritten(resp.body.data) = lastSuccess[id]
           /\ prevSuccess[id] # lastSuccess[id]
                => AsWritten(resp.body.data) # prevSuccess[id]

\* C9 witness: a poll answered ready after a second upload replaced a
\* different first record.
C9_Witness ==
  /\ resp.kind = "poll" /\ resp.code = 200 /\ resp.body.status = "ready"
  /\ successCount[resp.sessionId] >= 2
  /\ prevSuccess[resp.sessionId].cardNumber # lastSuccess[resp.sessionId].cardNumber

\* C10: an upload whose request timed out never afterwards changes the status
\* or record of a session.
C10_TimedOutUploadNeverWrites ==
  [][(resp'.kind = "scan" /\ resp'.timedOut) =>
       \A id \in DOMAIN scanSessions \cap DOMAIN scanSessions' :
         /\ scanSessions'[id].status = scanSessions[id].status
         /\ scanSessions'[id].data = scanSessions[id].data]_vars

\* C11: an upload that ends in a failure leaves the registry as it was, except
\* that a 410 removes the addressed session, which was expired.
C11_FailedUploadFrame ==
  [][(resp'.kind = "scan" /\ resp'.code # 200) =>
       \/ scanSessions' = scanSessions
       \/ /\ resp'.code = 410
          /\ resp'.sessionId \in DOMAIN scanSessions
          /\ scanSessions[resp'.sessionId].expiresAt <= now
          /\ scanSessions' = Without(scanSessions, {resp'.sessionId})]_vars

\* C11 witness: an upload to a ready session failed (no number, or the
\* recognizer threw) and the session still holds the record of its latest
\* successful upload.
C11_Witness ==
  /\ resp.kind = "scan" /\ resp.code \in {422, 500}
  /\ resp.sessionId \in DOMAIN scanSessions
  /\ scanSessions[resp.sessionId].status = "ready"
  /\ AsWritten(scanSessions[resp.sessionId].data) = lastSuccess[resp.sessionId]

\* C12: a run of the sweep at time now removes exactly the sessions with
\* expiresAt <= now and leaves every other session as it was.
C12_SweepRemovesExactlyExpired ==
  [][resp'.kind = "sweep" =>
       /\ DOMAIN scanSessions' =
            {id \in DOMAIN scanSessions : scanSessions[id].expiresAt > now}
       /\ \A id \in DOMAIN scanSessions' : scanSessions'[id] = scanSessions[id]
       /\ resp'.removed =
            {id \in DOMAIN scanSessions : scanSessions[id].expiresAt <= now}]_vars

\* C12 witness: the sweep ran over a ready, unexpired session and kept it.
C12_Witness ==
  /\ resp.kind = "sweep" /\ resp.removed = {}
  /\ \E id \in DOMAIN scanSessions :
       scanSessions[id].status = "ready" /\ scanSessions[id].expiresAt > now

\* C13: a stored session whose expiresAt lies within the observed clock range
\* is eventually out of the registry, by the clock and the sweep timer alone.
C13_ExpiredEventuallyRemoved ==
  \A id \in SessionIds :
    (id \in DOMAIN scanSessions /\ scanSessions[id].expiresAt <= MaxNow)
      ~> (id \notin DOMAIN scanSessions)

\* C13 witness: the sweep timer removed an expired session.
C13_Witness ==
  /\ resp.kind = "sweep" /\ resp.removed # {}
  /\ resp.removed \cap DOMAIN scanSessions = {}

\* C14: once a ready poll has set deliveredAt for a session, every later
\* operation on the session leaves it unchanged.
C14_DeliveredAtKept ==
  [][\A id \in DOMAIN scanSessions \cap DOMAIN scanSessions' :
       (scanSessions[id].data # null /\ scanSessions[id].data.deliveredAt # NoTime)
         => /\ scanSessions'[id].data # null
            /\ scanSessions'[id].data.deliveredAt = scanSessions[id].data.deliveredAt]_vars

\* C15: the data of an upload's success response has the four fields
\* maskedCardNumber, cardholderName, expiryDate and cardType alone, the masked
\* number shows no digit but the last four of the number, and no response to
\* an upload carries the number.
C15_UploadResponseMasked ==
  resp.kind = "scan" =>
    IF resp.code = 200
    THEN /\ DOMAIN resp.body = {"ok", "message", "data"}
         /\ DOMAIN resp.body.data =
              {"maskedCardNumber", "cardholderName", "expiryDate", "cardType"}
         /\ \A id \in DOMAIN scanSessions :
              (id = resp.sessionId /\ scanSessions[id].data # null) =>
                LET cardNumber == scanSessions[id].data.cardNumber
                    masked == resp.body.data.maskedCardNumber
                IN /\ Len(masked) = 19
                   /\ \A i \in 1..15 : ~IsDigit(masked[i])
                   /\ SubSeq(masked, 16, 19)
                        = SubSeq(cardNumber, Len(cardNumber) - 3, Len(cardNumber))
                   /\ \A f \in {"maskedCardNumber", "cardholderName", "expiryDate"} :
                        resp.body.data[f] # cardNumber
    ELSE DOMAIN resp.body = {"ok", "error"}

\* C15 witness: an upload succeeded on a stored session and its response
\* shows the last four digits of the stored number.
C15_Witness ==
  /\ resp.kind = "scan" /\ resp.code = 200
  /\ resp.sessionId \in DOMAIN scanSessions
  /\ scanSessions[resp.sessionId].data # null
  /\ Len(scanSessions[resp.sessionId].data.cardNumber) = MAX_CARD_DIGITS
  /\ resp.body.data.maskedCardNumber
       = maskCardNumber(scanSessions[resp.sessionId].data.cardNumber)
\* The mod-10 sum of a digit string written from its definition: the k-th
\* digit from the right counts once when k is odd and doubled, less 9 when
\* the double exceeds 9, when k is even.
RECURSIVE SumOver(_, _)
SumOver(weights, k) == IF k = 0 THEN 0 ELSE weights[k] + SumOver(weights, k - 1)

LuhnReference(d) ==
  SumOver([k \in 1..Len(d) |->
             IF k % 2 = 1 THEN DigitValue(d[Len(d) + 1 - k])
             ELSE IF 2 * DigitValue(d[Len(d) + 1 - k]) > 9
                  THEN 2 * DigitValue(d[Len(d) + 1 - k]) - 9
                  ELSE 2 * DigitValue(d[Len(d) + 1 - k])],
          Len(d)) % 10 = 0

\* C16: whatever the text, extractCardNumber returns the empty string or 13
\* to 16 decimal digits with a valid mod-10 checksum, never more than 16.
C16_CardNumberShape ==
  output.fn = "extractCardNumber" =>
    \/ output.value = <<>>
    \/ /\ Len(output.value) \in MIN_CARD_DIGITS..MAX_CARD_DIGITS
       /\ \A i \in 1..Len(output.value) : IsDigit(output.value[i])
       /\ LuhnReference(output.value)

\* A text whose digits number more than 16 gave a 16-digit number.
C16_Witness ==
  /\ output.fn = "extractCardNumber"
  /\ Len(StripNonDigits(normalizeDigitLikeText(input.text))) > MAX_CARD_DIGITS
  /\ Len(output.value) = MAX_CARD_DIGITS

\* C17: a text with one run of 13 to 16 digits of valid checksum, spaces or
\* dashes allowed inside it, between noise without digits, gives exactly the
\* digits of that run, also when the noise has letters the normalizer rewrites.
C17_SingleRunReturned ==
  (/\ input.kind = "card"
   /\ output.fn = "extractCardNumber"
   /\ Len(StripNonDigits(input.run)) \in MIN_CARD_DIGITS..MAX_CARD_DIGITS
   /\ LuhnReference(StripNonDigits(input.run)))
    => output.value = StripNonDigits(input.run)

\* C18: for a digit string of 13 to 16 digits, luhnCheck is true exactly when
\* the sum from the rightmost digit, every second digit doubled and reduced
\* by 9 when the double exceeds 9, is a multiple of 10.
C18_LuhnIsMod10 ==
  (/\ output.fn = "luhnCheck"
   /\ Len(input.text) \in MIN_CARD_DIGITS..MAX_CARD_DIGITS)
    => (output.value <=> LuhnReference(input.text))

\* A string of 13 digits passed.
C18_Witness ==
  /\ output.fn = "luhnCheck"
  /\ Len(input.text) = MIN_CARD_DIGITS
  /\ output.value

\* C19: normalizeDigitLikeText applied to its own result changes nothing, and
\* a character of the text that is a digit is left as it is.
C19_NormalizeIdempotent ==
  output.fn = "normalizeDigitLikeText twice" =>
    /\ output.value = output.once
    /\ Len(output.once) = Len(input.text)
    /\ \A i \in 1..Len(input.text) :
         IsDigit(input.text[i]) => output.once[i] = input.text[i]

\* The text normalized twice had a digit and a letter that is rewritten.
C19_Witness ==
  /\ output.fn = "normalizeDigitLikeText twice"
  /\ \E i \in 1..Len(input.text) : IsDigit(input.text[i])
  /\ \E i \in 1..Len(input.text) :
       ~IsDigit(input.text[i]) /\ IsDigit(output.once[i])

\* Of two printed dates, the one of the greater year, then the greater month.
LaterOf(a, b) ==
  IF a.year > b.year \/ (a.year = b.year /\ a.month > b.month) THEN a ELSE b

IsMonthYear(text) ==
  /\ Len(text) = 5
  /\ \/ text[1] = "0" /\ text[2] \in Digits \ {"0"}
     \/ text[1] = "1" /\ text[2] \in {"0", "1", "2"}
  /\ text[3] = "/"
  /\ IsDigit(text[4]) /\ IsDigit(text[5])

\* C22: whatever the text, extractExpiry returns the empty string or MM/YY
\* with MM in 01..12 and YY exactly two digits.
C22_ExpiryIsMonthYear ==
  output.fn = "extractExpiry" => (output.value = <<>> \/ IsMonthYear(output.value))

\* C23: detectCardType gives VISA for 4111111111111111, MASTERCARD for
\* 5500000000000004, DISCOVER for 6011000000000004, AMEX for 340000000000009
\* and RUPAY for 6076000000000000, and DISCOVER for every number that starts
\* with 6011.
C23_NetworkByLeadingDigits ==
  output.fn = "detectCardType" =>
    /\ input.text = <<"4", "1", "1", "1", "1", "1", "1", "1", "1", "1", "1", "1", "1", "1", "1", "1">> => output.value = "VISA"
    /\ input.text = <<"5", "5", "0", "0", "0", "0", "0", "0", "0", "0", "0", "0", "0", "0", "0", "4">> => output.value = "MASTERCARD"
    /\ input.text = <<"3", "4", "0", "0", "0", "0", "0", "0", "0", "0", "0", "0", "0", "0", "9">> => output.value = "AMEX"
    /\ input.text = <<"6", "0", "7", "6", "0", "0", "0", "0", "0", "0", "0", "0", "0", "0", "0", "0">> => output.value = "RUPAY"
    /\ StartsWith(input.text, <<"6", "0", "1", "1">>) => output.value = "DISCOVER"

\* The words of a text: what stands between its spaces.
RECURSIVE WordsOf(_)
WordsOf(text) ==
  IF \A i \in 1..Len(text) : text[i] # " " THEN <<text>>
  ELSE Once(CHOOSE j \in 1..Len(text) : text[j] = " " /\ \A k \in 1..(j - 1) : text[k] # " ",
         LAMBDA j : <<SubSeq(text, 1, j - 1)>> \o WordsOf(SubSeq(text, j + 1, Len(text))))

\* words are those of a name: 2 to 4 words of 2 to 14 letters, each with a
\* vowel and none of the blocklist
AreNameWords(words) ==
  /\ Len(words) \in 2..4
  /\ \A i \in 1..Len(words) :
       /\ Len(words[i]) \in 2..14
       /\ \A k \in 1..Len(words[i]) : words[i][k] \in Letters
       /\ \E k \in 1..Len(words[i]) : words[i][k] \in Vowels
       /\ words[i] \notin blockedWords

IsName(text) == Once(WordsOf(text), AreNameWords)

\* C24: whatever the text, extractCardholderName returns the empty string or
\* a name of 2 to 4 words, each of 2 to 14 letters with a vowel and none of
\* the blocklist; a line left with a single word or only blocklisted words
\* once its honorific is dropped is never what it returns.
C24_NameShape ==
  output.fn = "extractCardholderName" =>
    /\ output.value = <<>> \/ IsName(output.value)
    /\ input.kind = "name" =>
         \A i \in 1..Len(input.lines) :
           input.lines[i].rejected => output.value # input.lines[i].rest

\* A text with a rejected line and a line that is a name gave the name.
C24_Witness ==
  /\ output.fn = "extractCardholderName"
  /\ input.kind = "name"
  /\ \E i \in 1..Len(input.lines) : input.lines[i].rejected
  /\ output.value # <<>>

\* C25: a session that is stored and unexpired when a step is taken stays
\* stored, and stays as it was unless the step is a successful upload to it
\* or a ready poll of it, which changes its deliveredAt alone; so pending
\* polls, the health endpoint and session creation change no such session.
C25_OnlyUploadAndDeliveryWrite ==
  [][\A id \in DOMAIN scanSessions :
       scanSessions[id].expiresAt > now' =>
         /\ id \in DOMAIN scanSessions'
         /\ \/ scanSessions'[id] = scanSessions[id]
            \/ resp'.kind = "scan" /\ resp'.code = 200 /\ resp'.sessionId = id
            \/ /\ resp'.kind = "poll" /\ resp'.code = 200 /\ resp'.sessionId = id
               /\ resp'.body.status = "ready"
               /\ scanSessions[id].data # null
               /\ scanSessions'[id] =
                    [scanSessions[id] EXCEPT
                       !.data.deliveredAt = scanSessions'[id].data.deliveredAt]]_vars

\* A session was created while another session held a record, which it still
\* holds.
C25_Witness ==
  /\ resp.kind = "session"
  /\ \E id \in DOMAIN scanSessions :
       /\ id # resp.sessionId
       /\ scanSessions[id].status = "ready"
       /\ scanSessions[id].expiresAt > now

\* The two-phase search written from its description.  The groups that are
\* card numbers, by their place in scan order:
ValidGroups(groups) ==
  {i \in 1..Len(groups) :
     /\ Len(StripNonDigits(groups[i])) \in MIN_CARD_DIGITS..MAX_CARD_DIGITS
     /\ LuhnReference(StripNonDigits(groups[i]))}

\* the windows <<start, length>> of the digit stream that are card numbers
ValidWindows(allDigits) ==
  {w \in (0..Len(allDigits)) \X (MIN_CARD_DIGITS..MAX_CARD_DIGITS) :
     /\ w[1] + w[2] <= Len(allDigits)
     /\ LuhnReference(SubSeq(allDigits, w[1] + 1, w[1] + w[2]))}

\* the window of smallest start and, at that start, of greatest length
FirstLongest(windows) ==
  CHOOSE w \in windows : \A v \in windows :
    w[1] < v[1] \/ (w[1] = v[1] /\ w[2] >= v[2])

ReferenceSearch(groups, allDigits) ==
  IF ValidGroups(groups) # {}
  THEN StripNonDigits(groups[MinOf(ValidGroups(groups))])
  ELSE IF ValidWindows(allDigits) # {}
  THEN SubSeq(allDigits, FirstLongest(ValidWindows(allDigits))[1] + 1,
              FirstLongest(ValidWindows(allDigits))[1]
                + FirstLongest(ValidWindows(allDigits))[2])
  ELSE <<>>

\* C26: extractCardNumber returns the first grouped candidate, in scan order,
\* of 13 to 16 digits with a valid checksum; when there is none, the valid
\* window of 13 to 16 digits of the digit stream with the smallest start and,
\* at that start, the greatest length; when there is none, the empty string.
C26_TwoPhaseSearch ==
  output.fn = "extractCardNumber" =>
    output.value = ReferenceSearch(MatchGroups(normalizeDigitLikeText(input.text), 1),
                                   StripNonDigits(normalizeDigitLikeText(input.text)))

\* No group was a card number and a window that does not start the digit
\* stream was returned.
C26_Witness ==
  /\ output.fn = "extractCardNumber"
  /\ output.value # <<>>
  /\ ValidGroups(MatchGroups(normalizeDigitLikeText(input.text), 1)) = {}
  /\ \E k \in 1..Len(output.value) :
       output.value[k] # StripNonDigits(normalizeDigitLikeText(input.text))[k]

\* the network rules that match the digits of a number
RulesMatching(bin) ==
  {rule \in {"VISA", "MASTERCARD", "RUPAY", "AMEX", "DISCOVER"} :
     \/ rule = "VISA" /\ VisaRule(bin)
     \/ rule = "MASTERCARD" /\ MastercardRule(bin)
     \/ rule = "RUPAY" /\ RupayRule(bin)
     \/ rule = "AMEX" /\ AmexRule(bin)
     \/ rule = "DISCOVER" /\ DiscoverRule(bin)}

\* C27: for a digit string that does not start with 65, at most one of the
\* VISA, MASTERCARD, RUPAY, AMEX and DISCOVER rules matches.
C27_RulesExclusiveBut65 ==
  (output.fn = "detectCardType" /\ ~StartsWith(input.text, <<"6", "5">>))
    => Cardinality(RulesMatching(StripNonDigits(input.text))) <= 1

\* C28: a session-creation request answered with an error adds no session
\* to the registry.
C28_FailedCreateAddsNothing ==
  [][(resp'.kind = "session" /\ resp'.code # 200)
       => DOMAIN scanSessions' \subseteq DOMAIN scanSessions]_vars

\* C29: at most one upload request of the mobile scanner is outstanding at
\* any time.
C29_OneUploadOutstanding == scanner.uploading <= 1

\* C30: a poll response for a session other than the one the page is polling
\* does not stop the polling, does not clear activeSessionId and does not
\* fill the form.
C30_StaleResponseIgnored ==
  [][(/\ desktop'.last.event = "poll response"
      /\ BagCardinality(desktop'.polls) < BagCardinality(desktop.polls)
      /\ desktop.pollHandle # 0
      /\ desktop'.last.sessionId # desktop.pollHandle)
       => /\ desktop'.pollHandle = desktop.pollHandle
          /\ desktop'.activeSessionId = desktop.activeSessionId
          /\ desktop'.form = desktop.form]_vars

\* C31: once the page has handled a ready or a 404/410 answer for the session
\* its timer polls, that step clears the timer, no later step sends a poll
\* request for that session, and the timer stays cleared until the answer to
\* a session creation starts the polling of a new session.
C31_NoPollAfterHandled ==
  [][/\ \A s \in desktop.handled :
          CopiesIn(s, desktop'.polls) <= CopiesIn(s, desktop.polls)
     /\ desktop'.pollHandle \notin desktop'.handled
     /\ (desktop'.handled # desktop.handled) => desktop'.pollHandle = 0
     /\ (desktop.pollHandle = 0 /\ desktop'.pollHandle # 0)
          => /\ desktop'.last.event = "session"
             /\ desktop'.created = desktop.created + 1
             /\ desktop'.pollHandle = desktop'.created]_vars

\* a poll request is sent for a new session after an earlier session's
\* answer was handled
C31_Witness ==
  /\ desktop.handled # {}
  /\ desktop.last.event = "tick"
  /\ desktop.last.sessionId \notin desktop.handled

\* C32: once the scanner has handled a successful upload response (hasCompleted
\* is true), no step sends a new upload request or starts a new scanOnce
\* call, hasCompleted stays true, the scan timer stays cleared, and scanning
\* stays off with the camera stream released.
C32_NoUploadAfterSuccess ==
  [][scanner.hasCompleted
       => /\ scanner'.uploading <= scanner.uploading
          /\ scanner'.capturing <= scanner.capturing
          /\ scanner'.hasCompleted
          /\ ~scanner'.scanIntervalRef
          /\ ~scanner'.scanningActive
          /\ ~scanner'.streamRef]_vars

====
